---- MODULE Spec2Model ----
(***************************************************************************)
(* Model of the app deploy flow (src/src/deploy/app/index.ts) and of the   *)
(* retention pruner (src/src/deploy/app/prune.ts) of slseed-web-utils.     *)
(*                                                                         *)
(* Several specifications share the module, each leaving the variables of  *)
(* the others as they are: Spec, the deploy and prune processes; AutoSpec, *)
(* the deploy process started with --autoDeploy and no operator; PruneSpec,*)
(* the standalone pruner started in a state that earlier releases have     *)
(* left; RequestSpec, the requests that uploadFiles and updateDistConfig   *)
(* build from a file list and a fetched configuration; SetupSpec, the      *)
(* stack setup flow (src/src/setup/stack/index.ts), with SetupLiveSpec     *)
(* adding the fairness of node's event loop; StageSpec, the selection of   *)
(* the stage (src/src/stage-select.ts); WaitSpec, the polling of           *)
(* waitForDeployed.                                                        *)
(*                                                                         *)
(* Strings that the code builds, compares or hands to S3 (version names,   *)
(* key prefixes, origin paths) are sequences of character codes, so that   *)
(* prefix matching, the byte-order listing of S3 and the regular           *)
(* expression of listVersionsInBucket are computed as the code and the     *)
(* service compute them.  The package version is 1.0.<patch>.              *)
(***************************************************************************)
EXTENDS Integers, Sequences, FiniteSets, TLC

\* ------------------------------------------------------------------ bounds
MaxFiles == 2
LastPatch == 11
MaxRuns == 1
MaxETag == 1
MaxTree == 2
MaxOrigins == 2
MaxPolls == 3
MaxBytes == 2
MaxCalls == 2
MaxTicks == 5

Files == 1..MaxFiles
\* patch numbers of the versions: 1.0.1 and 1.0.9 .. 1.0.<LastPatch>
Patches == {1} \cup (9..LastPatch)

\* ------------------------------------------------------------- characters
ChV == 118
ChDot == 46
ChSlash == 47
ChZero == 48

RECURSIVE Digits(_)
Digits(n) == IF n < 10 THEN <<ChZero + n>>
             ELSE Digits(n \div 10) \o <<ChZero + (n % 10)>>

\* rcfile('slseed').package.version: "1.0.<patch>"
VersionStr(p) == <<ChZero + 1, ChDot, ChZero, ChDot>> \o Digits(p)

VersionStrs == {VersionStr(p) : p \in Patches}

IsPrefixOf(p, s) == /\ Len(p) <= Len(s)
                    /\ \A i \in 1..Len(p) : p[i] = s[i]

RECURSIVE LexLess(_, _)
LexLess(a, b) ==
  IF a = <<>> THEN b # <<>>
  ELSE IF b = <<>> THEN FALSE
  ELSE IF Head(a) # Head(b) THEN Head(a) < Head(b)
  ELSE LexLess(Tail(a), Tail(b))

RECURSIVE SortLex(_)
SortLex(S) ==
  IF S = {} THEN <<>>
  ELSE LET m == CHOOSE x \in S : \A y \in S \ {x} : LexLess(x, y)
       IN  <<m>> \o SortLex(S \ {m})

RECURSIVE Reverse(_)
Reverse(s) == IF s = <<>> THEN <<>> ELSE Reverse(Tail(s)) \o <<Head(s)>>

\* the files of the dist tree, in the order glob.sync returns them:
\* "/app.js", "/index.html", "/logo.png", "/manifest.json", "/zz.css"
FileNames == << <<47, 97, 112, 112, 46, 106, 115>>,
                <<47, 105, 110, 100, 101, 120, 46, 104, 116, 109, 108>>,
                <<47, 108, 111, 103, 111, 46, 112, 110, 103>>,
                <<47, 109, 97, 110, 105, 102, 101, 115, 116, 46, 106, 115, 111, 110>>,
                <<47, 122, 122, 46, 99, 115, 115>> >>

\* extname(filename) is in specFiles.gzip: ".js", ".json", ".css" of the
\* names above
GzipFile(f) == f \in {1, 4, 5}

\* Key = posix.join(`v${version}`, filename)
KeyOf(version, f) == <<ChV>> \o version \o FileNames[f]

\* an object that no release has put: "static/app.js", below a top-level
\* prefix of its own
OtherKeys == {<<115, 116, 97, 116, 105, 99>> \o FileNames[1]}

Keys == {KeyOf(v, f) : v \in VersionStrs, f \in Files} \cup OtherKeys

\* the key up to and including its first "/" after position 1
RECURSIVE UpToSlash(_)
UpToSlash(s) == IF s = <<>> THEN <<>>
                ELSE IF Head(s) = ChSlash THEN <<ChSlash>>
                ELSE <<Head(s)>> \o UpToSlash(Tail(s))

\* ------------------------------------------------------------ S3 service
\* bucket[k] = 1 when the object of key k exists, 0 when it does not
Present(b) == {k \in Keys : b[k] > 0}

\* listObjects({Prefix}) . Contents
ListObjects(b, prefix) == {k \in Present(b) : IsPrefixOf(prefix, k)}

\* listObjects({Delimiter: '/'}) . CommonPrefixes, in UTF-8 binary order
CommonPrefixes(b) == SortLex({UpToSlash(k) : k \in Present(b)})


VersionsPresent(b) == {v \in VersionStrs : \E f \in Files : b[KeyOf(v, f)] > 0}

\* the order in which the version prefixes now present were created
CreatedAfter(order, b) ==
  LET kept == SelectSeq(order, LAMBDA v : v \in VersionsPresent(b))
      new  == VersionsPresent(b) \ {order[i] : i \in 1..Len(order)}
  IN  kept \o SortLex(new)

\* --------------------------------------------------------------- state
VARIABLES
  pkgVersion,      \* patch number of package.json's version
  distTree,        \* regular files under slseedrc.dist
  bucket,          \* the deploy bucket
  created,         \* version prefixes present, oldest first
  dist,            \* the CloudFront distribution: config and ETag
  runs,            \* processes started so far
  pc,              \* position of the running process
  flow,            \* "deploy" (deploy/app/index.ts) or "prune" (deploy/prune.ts)
  autoDeploy,      \* --autoDeploy
  tasks,           \* the preparation task selected
  version,         \* getNewVersion() of this run
  deployed,        \* result of checkIfVersionDeployed
  override,        \* answer to 'Proceed anyway?'
  files,           \* listFilesToDeploy() of this run
  dispatched,      \* uploadFiles has been called
  upload,          \* state of each s3.upload promise of this run
  cutoverInvoked,  \* deploy has called updateDistConfig
  fetched,         \* distConfig returned by getDistributionConfig
  submitted,       \* updateDistribution requests sent in this run
  updateResult,    \* how the updateDistribution request of this run ended
  exitCode,        \* process.exitCode
  current,         \* prunePreviousVersions: current
  versions,        \* prunePreviousVersions: versions
  selected,        \* prunePreviousVersions: versions still to delete
  contents,        \* deleteVersionFromBucket: Contents
  deleted,         \* versions whose batch delete succeeded in this run
  snapshot,        \* creation order of the prefixes when versions was listed
  listed,          \* listVersionsInBucket has returned
  pruneResult,     \* how prunePreviousVersions ended
  versionCalls,    \* listObjects/deleteObjects requests made for a version
  originComplete,  \* every dist file was in the bucket when the origin was set
  rewrote,         \* keys this run has put over an existing object
  failedUpload,    \* versions whose latest release failed during upload
  hadObjects,      \* v<version>/ held objects when this run checked
  retry,           \* this run re-runs a release that failed during upload
  invalidation,    \* how the createInvalidation request of this run ended
  listing,         \* how the listObjects of checkIfVersionDeployed ended
  settledLate,     \* files whose upload succeeded after the run had failed
  spawnStatus      \* exit status of the last preparation task of this run

envVars == <<pkgVersion, distTree, bucket, created, dist, runs>>
runVars == <<flow, autoDeploy, tasks, version, deployed, override, files,
             dispatched, upload, cutoverInvoked, fetched, submitted,
             updateResult>>
pruneVars == <<current, versions, selected, contents, deleted, snapshot,
               listed, pruneResult, versionCalls>>
histVars == <<originComplete, rewrote, failedUpload, hadObjects, retry,
              invalidation, listing, settledLate, spawnStatus>>
deployVars == <<envVars, pc, exitCode, runVars, pruneVars, histVars>>

\* `/v${version}`
OriginPathOf(v) == <<ChSlash, ChV>> \o v

\* --------------------------------------- requests built from their inputs
VARIABLES
  treeFiles,       \* listFilesToDeploy(): the paths of the files below dist
  relVersion,      \* the version uploadFiles and updateDistConfig are given
  putParams,       \* params of the files mapped so far, in the order of files
  fileBytes,       \* the bytes of those files, as read when they were mapped
  fetchedConfig,   \* distConfig: what getDistributionConfig returned
  updateParams     \* the request passed to updateDistribution, once built

requestVars == <<treeFiles, relVersion, putParams, fileBytes, fetchedConfig,
                 updateParams>>

\* file.replace(slseedrc.dist, '') of the files a build can leave in dist:
\* "/app.js", "/index.html", "/logo.png", "/manifest.json",
\* "/service-worker.js", "/sub/index.html", "/index.html.map",
\* "/my-index.html"
TreePaths ==
  { <<47, 97, 112, 112, 46, 106, 115>>,
    <<47, 105, 110, 100, 101, 120, 46, 104, 116, 109, 108>>,
    <<47, 108, 111, 103, 111, 46, 112, 110, 103>>,
    <<47, 109, 97, 110, 105, 102, 101, 115, 116, 46, 106, 115, 111, 110>>,
    <<47, 115, 101, 114, 118, 105, 99, 101, 45, 119, 111, 114, 107, 101, 114,
      46, 106, 115>>,
    <<47, 115, 117, 98, 47, 105, 110, 100, 101, 120, 46, 104, 116, 109, 108>>,
    <<47, 105, 110, 100, 101, 120, 46, 104, 116, 109, 108, 46, 109, 97, 112>>,
    <<47, 109, 121, 45, 105, 110, 100, 101, 120, 46, 104, 116, 109, 108>> }

Trees == {T \in SUBSET TreePaths : Cardinality(T) <= MaxTree}

\* specFiles.pwa: 'index.html', 'service-worker.js', 'manifest.json'
specFilesPwa ==
  { <<105, 110, 100, 101, 120, 46, 104, 116, 109, 108>>,
    <<115, 101, 114, 118, 105, 99, 101, 45, 119, 111, 114, 107, 101, 114, 46,
      106, 115>>,
    <<109, 97, 110, 105, 102, 101, 115, 116, 46, 106, 115, 111, 110>> }

\* path.basename(p): what follows the last "/"
Basename(p) ==
  LET slashes == {i \in 1..Len(p) : p[i] = ChSlash}
  IN  IF slashes = {} THEN p
      ELSE SubSeq(p, (CHOOSE i \in slashes : \A j \in slashes : j <= i) + 1,
                  Len(p))

\* specFiles.gzip: '.js', '.css', '.json', '.ico', '.map', '.xml', '.txt',
\* '.svg', '.eot', '.ttf', '.woff', '.woff2'
specFilesGzip ==
  { <<46, 106, 115>>, <<46, 99, 115, 115>>, <<46, 106, 115, 111, 110>>,
    <<46, 105, 99, 111>>, <<46, 109, 97, 112>>, <<46, 120, 109, 108>>,
    <<46, 116, 120, 116>>, <<46, 115, 118, 103>>, <<46, 101, 111, 116>>,
    <<46, 116, 116, 102>>, <<46, 119, 111, 102, 102>>,
    <<46, 119, 111, 102, 102, 50>> }

\* the extension taken from the first "." of the name
ExtnameFromFirstDot(p) ==
  LET name == Basename(p)
      dots == {i \in 2..Len(name) : name[i] = ChDot}
  IN  IF dots = {} THEN <<>>
      ELSE SubSeq(name, CHOOSE i \in dots : \A j \in dots : i <= j, Len(name))

\* path.extname(p): from the last "." of the name, unless the name has none
\* or only begins with one
Extname(p) ==
  LET name == Basename(p)
      dots == {i \in 2..Len(name) : name[i] = ChDot}
  IN  IF dots = {} THEN <<>>
      ELSE SubSeq(name, CHOOSE i \in dots : \A j \in dots : j <= i, Len(name))

\* specFiles.gzip.includes(extname(filename))
Compressible(filename) == Extname(filename) \in specFilesGzip

\* the contents a file may have: up to MaxBytes bytes, each 7 or 8
Payloads == UNION {[1..n -> {7, 8}] : n \in 0..MaxBytes}

\* the runs of s, each as its length and its byte
RECURSIVE RunLengths(_)
RunLengths(s) ==
  IF s = <<>> THEN <<>>
  ELSE LET others == {i \in 1..Len(s) : s[i] # s[1]}
           n == IF others = {} THEN Len(s)
                ELSE (CHOOSE i \in others : \A j \in others : i <= j) - 1
       IN  <<n, s[1]>> \o RunLengths(SubSeq(s, n + 1, Len(s)))

\* zlib.gzipSync(bytes, { level: 9 }): the two magic bytes, the data in a
\* compressed form (here its runs), and the length of the data (ISIZE)
Gzip(bytes) == <<31, 139>> \o RunLengths(bytes) \o <<Len(bytes) % 256>>

\* what is not a gzip stream
NotGzip == <<0 - 1>>

RECURSIVE Expand(_)
Expand(pairs) ==
  IF Len(pairs) < 2 THEN <<>>
  ELSE [i \in 1..pairs[1] |-> pairs[2]] \o Expand(SubSeq(pairs, 3, Len(pairs)))

\* what a client does with a body of content-encoding gzip
Gunzip(body) ==
  IF Len(body) < 3 \/ body[1] # 31 \/ body[2] # 139 \/ Len(body) % 2 # 1
  THEN NotGzip
  ELSE LET data == Expand(SubSeq(body, 3, Len(body) - 1))
       IN  IF Len(data) % 256 = body[Len(body)] THEN data ELSE NotGzip

\* posix.join(`v${version}`, basename(filename)): the directories are dropped
PosixJoinBasename(a, b) == a \o <<ChSlash>> \o Basename(b)

\* posix.join(a, b) of two normalized parts
PosixJoin(a, b) ==
  IF b # <<>> /\ Head(b) = ChSlash THEN a \o b ELSE a \o <<ChSlash>> \o b

\* specFiles.pwa.includes(filename): the whole path is looked up
PwaFileByPath(filename) == filename \in specFilesPwa

\* specFiles.pwa.includes(basename(filename))
PwaFile(filename) == Basename(filename) \in specFilesPwa

\* CacheControl, as the set of its directives
CacheControlOf(filename) ==
  IF PwaFile(filename)
  THEN {"no-store", "no-cache", "must-revalidate", "proxy-revalidate",
        "max-age=0"}
  ELSE {"max-age=86400"}

\* params: PutObjectRequest of files.map's callback, for a file of the given
\* bytes; ContentEncoding is set for the compressed body only
PutObjectRequest(v, filename, bytes) ==
  LET params == [Key |-> PosixJoin(<<ChV>> \o v, filename),
                 CacheControl |-> CacheControlOf(filename)]
  IN  IF Compressible(filename)
      THEN [Body |-> Gzip(bytes), ContentEncoding |-> "gzip"] @@ params
      ELSE [Body |-> bytes] @@ params

\* process.env[String(config.bucket)]: "app"
DeployBucket == <<97, 112, 112>>

\* `S3-${bucket}/v${version}`
OriginIdOf(bucketName, v) == <<83, 51, 45>> \o bucketName \o OriginPathOf(v)

\* `${bucket}.s3.amazonaws.com`
DomainNameOf(bucketName) ==
  bucketName \o <<46, 115, 51, 46, 97, 109, 97, 122, 111, 110, 97, 119, 115,
                  46, 99, 111, 109>>

\* the origin the previous release left in the distribution
PreviousOrigin ==
  [Id |-> OriginIdOf(DeployBucket, VersionStr(1)),
   DomainName |-> DomainNameOf(DeployBucket),
   OriginPath |-> OriginPathOf(VersionStr(1)),
   OriginAccessIdentity |-> "origin-access-identity/cloudfront/E1"]

\* an origin of another kind: Id "api", DomainName "api.example.com"
OtherOrigin ==
  [Id |-> <<97, 112, 105>>,
   DomainName |-> <<97, 112, 105, 46, 101, 120, 97, 109, 112, 108, 101, 46,
                    99, 111, 109>>,
   OriginPath |-> <<>>,
   OriginAccessIdentity |-> ""]

OriginItems ==
  UNION {[1..n -> {PreviousOrigin, OtherOrigin}] : n \in 1..MaxOrigins}

\* a GetDistributionConfigResult
DistConfigOf(root, comment, items, i, policy) ==
  [ETag |-> "E1",
   DistributionConfig |->
     [DefaultRootObject |-> root,
      Comment |-> comment,
      Origins |-> [Quantity |-> Len(items), Items |-> items],
      DefaultCacheBehavior |->
        [TargetOriginId |-> items[i].Id, ViewerProtocolPolicy |-> policy]]]

DistConfigs ==
  UNION {{DistConfigOf(root, comment, items, i, policy) :
            root \in {"", "index.html"}, comment \in {"", "site"},
            i \in 1..Len(items),
            policy \in {"allow-all", "redirect-to-https"}} :
         items \in OriginItems}

\* distConfig.DistributionConfig.Origins.Items.pop()
LastOrigin(items) == items[Len(items)]

\* the one item of Origins.Items
OriginOf(distConfig, bucketName, v) ==
  [LastOrigin(distConfig.DistributionConfig.Origins.Items) EXCEPT
     !.DomainName = DomainNameOf(bucketName),
     !.Id = OriginIdOf(bucketName, v),
     !.OriginPath = OriginPathOf(v)]

\* DefaultCacheBehavior: { TargetOriginId } without the spread of the
\* fetched behavior; the service fills in its defaults
DefaultCacheBehaviorFresh(distConfig, bucketName, v) ==
  [TargetOriginId |-> OriginIdOf(bucketName, v),
   ViewerProtocolPolicy |-> "allow-all"]

\* { ...distConfig.DistributionConfig.DefaultCacheBehavior, TargetOriginId }
DefaultCacheBehaviorOf(distConfig, bucketName, v) ==
  [distConfig.DistributionConfig.DefaultCacheBehavior EXCEPT
     !.TargetOriginId = OriginIdOf(bucketName, v)]

\* the last origin is replaced in the fetched list, the origins before it
\* are kept
OriginsLastReplaced(distConfig, bucketName, v) ==
  LET items == distConfig.DistributionConfig.Origins.Items
  IN  [Quantity |-> Len(items),
       Items |-> [items EXCEPT ![Len(items)] =
                    OriginOf(distConfig, bucketName, v)]]

\* Origins: { Quantity: 1, Items: [{ ... }] }
OriginsOf(distConfig, bucketName, v) ==
  [Quantity |-> 1, Items |-> <<OriginOf(distConfig, bucketName, v)>>]

\* the argument of cloudfront.updateDistribution
UpdateDistributionRequest(distConfig, bucketName, v) ==
  [Id |-> "distId",
   IfMatch |-> distConfig.ETag,
   DistributionConfig |->
     [distConfig.DistributionConfig EXCEPT
        !.DefaultRootObject = "index.html",
        !.Origins = OriginsOf(distConfig, bucketName, v),
        !.DefaultCacheBehavior =
           DefaultCacheBehaviorOf(distConfig, bucketName, v)]]

\* the configuration of a distribution that was never cut over
FreshConfig == DistConfigOf("", "", <<PreviousOrigin>>, 1, "allow-all")

\* uploadFiles is given a version and a file list, updateDistConfig a version
\* and a fetched configuration; neither reads the input of the other, and
\* one of the two inputs is varied at a time
RequestInit ==
  /\ relVersion \in {VersionStr(1), VersionStr(LastPatch)}
  /\ \/ treeFiles \in Trees /\ fetchedConfig = FreshConfig
     \/ treeFiles = {} /\ fetchedConfig \in DistConfigs
  /\ putParams = <<>>
  /\ fileBytes = <<>>
  /\ updateParams = <<>>

\* nothing is being built
RequestIdle ==
  /\ treeFiles = {}
  /\ relVersion = VersionStr(1)
  /\ putParams = <<>>
  /\ fileBytes = <<>>
  /\ fetchedConfig = FreshConfig
  /\ updateParams = <<>>

\* ---------------------------------------------------------- stack setup
VARIABLES
  stack,           \* StackStatus of the stack at the service, or "ABSENT"
  spc,             \* position of the stack-setup process
  isUpdate,        \* result of checkIfCurrentStackExists
  validation,      \* how validateTemplate ended in this run
  request,         \* the createStack or updateStack request of this run
  stackAtSubmit,   \* stack, when that request was issued
  observed,        \* StackStatus of checkStackStatus's latest describeStack
  polls,           \* describeStack calls of checkStackStatus
  terminals,       \* statuses observed by checkStackStatus that did not loop
  pollResult,      \* how checkStackStatus ended
  outputs,         \* console.info('Outputs:', Outputs) has run
  failMessage,     \* the StackStatus quoted by spinner.fail, if any
  envFile,         \* 'Update env file?': "none", "asked", "skipped", "updated"
  setupExitCode    \* process.exitCode of the stack-setup process

setupVars == <<stack, spc, isUpdate, validation, request, stackAtSubmit,
               observed, polls, terminals, pollResult, outputs, failMessage,
               envFile, setupExitCode>>

\* case 'UPDATE_COMPLETE_CLEANUP_IN_PROGRESS': case 'CREATE_IN_PROGRESS':
\* case 'UPDATE_IN_PROGRESS': as 'UPDATE_COMPLETE_CLEANUP_IN_PROGRESS' falls
\* to default
LoopStatusesNoCleanup == {"CREATE_IN_PROGRESS", "UPDATE_IN_PROGRESS"}

\* every status that is in progress loops
LoopStatusesAllInProgress ==
  {"UPDATE_COMPLETE_CLEANUP_IN_PROGRESS", "CREATE_IN_PROGRESS",
   "UPDATE_IN_PROGRESS", "ROLLBACK_IN_PROGRESS",
   "UPDATE_ROLLBACK_IN_PROGRESS"}

\* case 'UPDATE_COMPLETE_CLEANUP_IN_PROGRESS': case 'CREATE_IN_PROGRESS':
\* case 'UPDATE_IN_PROGRESS':
LoopStatuses ==
  {"UPDATE_COMPLETE_CLEANUP_IN_PROGRESS", "CREATE_IN_PROGRESS",
   "UPDATE_IN_PROGRESS"}

\* every status that ends in _COMPLETE counts as a success
SuccessStatusesAnyComplete ==
  {"CREATE_COMPLETE", "UPDATE_COMPLETE", "ROLLBACK_COMPLETE",
   "UPDATE_ROLLBACK_COMPLETE"}

\* case 'CREATE_COMPLETE': case 'UPDATE_COMPLETE':
SuccessStatuses == {"CREATE_COMPLETE", "UPDATE_COMPLETE"}

\* the statuses the service reports for a stack
StackStatuses ==
  {"CREATE_IN_PROGRESS", "CREATE_COMPLETE", "ROLLBACK_IN_PROGRESS",
   "ROLLBACK_COMPLETE", "UPDATE_IN_PROGRESS",
   "UPDATE_COMPLETE_CLEANUP_IN_PROGRESS", "UPDATE_COMPLETE",
   "UPDATE_ROLLBACK_IN_PROGRESS", "UPDATE_ROLLBACK_COMPLETE"}

\* the statuses a create or update of the service passes through
StackSuccessors(s) ==
  CASE s = "CREATE_IN_PROGRESS" -> {"CREATE_COMPLETE", "ROLLBACK_IN_PROGRESS"}
    [] s = "ROLLBACK_IN_PROGRESS" -> {"ROLLBACK_COMPLETE"}
    [] s = "UPDATE_IN_PROGRESS" ->
         {"UPDATE_COMPLETE_CLEANUP_IN_PROGRESS", "UPDATE_ROLLBACK_IN_PROGRESS"}
    [] s = "UPDATE_COMPLETE_CLEANUP_IN_PROGRESS" -> {"UPDATE_COMPLETE"}
    [] s = "UPDATE_ROLLBACK_IN_PROGRESS" -> {"UPDATE_ROLLBACK_COMPLETE"}
    [] OTHER -> {}

\* the statuses from which the service accepts updateStack
Updatable == {"CREATE_COMPLETE", "UPDATE_COMPLETE", "UPDATE_ROLLBACK_COMPLETE"}

\* getStackInput({ StackName, isUpdate, template, values })
getStackInput(update) ==
  [StackName |-> "stack-stage-base-stack",
   Capabilities |-> {"CAPABILITY_NAMED_IAM", "CAPABILITY_AUTO_EXPAND"},
   TemplateBody |-> "template",
   Parameters |-> IF update THEN "UsePreviousValue" ELSE "ParameterValue"]

\* cfm.createStack({ ...params })
CreateStackInputPlain(params) == params

\* cfm.createStack({ ...params, EnableTerminationProtection: true })
CreateStackInput(params) == [EnableTerminationProtection |-> TRUE] @@ params

\* cfm.updateStack({ ...params })
UpdateStackInput(params) == params

\* the stack-setup process has just been started; the stack is in any state
\* an earlier run or another operator has left it in
SetupInit ==
  /\ stack \in {"ABSENT", "CREATE_COMPLETE", "UPDATE_COMPLETE",
                "CREATE_IN_PROGRESS", "UPDATE_IN_PROGRESS",
                "ROLLBACK_COMPLETE", "UPDATE_ROLLBACK_COMPLETE"}
  /\ spc = "stage"
  /\ isUpdate = FALSE
  /\ validation = "none"
  /\ request = <<>>
  /\ stackAtSubmit = "none"
  /\ observed = "none"
  /\ polls = 0
  /\ terminals = 0
  /\ pollResult = "none"
  /\ outputs = FALSE
  /\ failMessage = "none"
  /\ envFile = "none"
  /\ setupExitCode = 0

\* no stack-setup process is started
SetupIdle ==
  /\ stack = "ABSENT"
  /\ spc = "idle"
  /\ isUpdate = FALSE
  /\ validation = "none"
  /\ request = <<>>
  /\ stackAtSubmit = "none"
  /\ observed = "none"
  /\ polls = 0
  /\ terminals = 0
  /\ pollResult = "none"
  /\ outputs = FALSE
  /\ failMessage = "none"
  /\ envFile = "none"
  /\ setupExitCode = 0

\* ------------------------------------------------ stage selection: state
VARIABLES
  stageArg,        \* --stage
  useAwsProfiles,  \* --useAwsProfiles
  revision,        \* the stage-select module in use
  profileSet,      \* let profileSet
  env,             \* process.env: the variables stageSelect writes
  sdkConfig,       \* AWS.config
  selPc,           \* position of the call of stageSelect
  profile,         \* const { profile }
  selectResult,    \* how the last call of stageSelect ended
  calls,           \* calls of stageSelect made by the process
  envAtCall,       \* process.env when the last call was made
  sdkAtCall        \* AWS.config when the last call was made

stageVars == <<stageArg, useAwsProfiles, revision, profileSet, env, sdkConfig,
               selPc, profile, selectResult, calls, envAtCall, sdkAtCall>>

\* a variable of process.env or a key of AWS.config that is not set
Unset == "<unset>"

\* stage: { default: null }
NoStage == "<null>"

\* the values of --stage: none, the empty string, two keys of profiles and
\* a name that is not a key
Stages == {NoStage, "", "development", "production", "staging"}

\* require(join(slseedrc.configs, 'aws')): { region, profiles, apiVersions }
AwsConfig ==
  [region |-> "us-east-1",
   profiles |-> [development |-> "acme-dev", production |-> "acme-prod"],
   apiVersions |-> "2016-11-15"]

\* stage ? ... : ...
Truthy(s) == s \notin {NoStage, ""}

\* the profile is not looked up before it is used
ValidProfileUnchecked(p) == TRUE

\* Object.keys(profiles).includes(String(profile))
ValidProfile(p) == p \in DOMAIN AwsConfig.profiles

\* profiles[String(profile)], written to process.env
ProfileOf(p) ==
  IF p \in DOMAIN AwsConfig.profiles THEN AwsConfig.profiles[p]
  ELSE "undefined"

\* process.env after the assignments of stageSelect
EnvAfter(e, p) ==
  LET withStage == [e EXCEPT !.NODE_ENV = p]
  IN  IF ~useAwsProfiles THEN withStage
      ELSE [withStage EXCEPT
              !.AWS_PROFILE = ProfileOf(p),
              !.AWS_DEFAULT_REGION = AwsConfig.region,
              !.AWS_SECRET_ACCESS_KEY =
                 IF revision = "profileSet" THEN "" ELSE Unset,
              !.AWS_ACCESS_KEY_ID =
                 IF revision = "profileSet" THEN "" ELSE Unset]

\* AWS.config after AWS.config.update({ apiVersions, [credentials,] region })
SdkConfigAfter(c, p) ==
  IF ~useAwsProfiles THEN c
  ELSE [c EXCEPT
          !.apiVersions = AwsConfig.apiVersions,
          !.region = AwsConfig.region,
          !.credentials = IF revision = "profileSet" THEN ProfileOf(p) ELSE @]

\* the process has loaded the module and not called stageSelect
StageInit ==
  /\ stageArg \in Stages
  /\ useAwsProfiles \in BOOLEAN
  /\ revision \in {"profileSet", "plain"}
  /\ profileSet = FALSE
  /\ \E stageBefore \in {Unset, "test"}, profileBefore \in {Unset, "default"},
        keyBefore \in {Unset, "AKIA"} :
       env = [NODE_ENV |-> stageBefore,
              AWS_PROFILE |-> profileBefore,
              AWS_DEFAULT_REGION |-> Unset,
              AWS_SECRET_ACCESS_KEY |-> keyBefore,
              AWS_ACCESS_KEY_ID |-> keyBefore]
  /\ sdkConfig = [apiVersions |-> Unset, region |-> Unset,
                  credentials |-> "default chain"]
  /\ selPc = "idle"
  /\ profile = Unset
  /\ selectResult = "none"
  /\ calls = 0
  /\ envAtCall = env
  /\ sdkAtCall = sdkConfig

\* no process that selects a stage is started
StageIdle ==
  /\ StageInit
  /\ stageArg = NoStage
  /\ useAwsProfiles
  /\ revision = "plain"
  /\ env.NODE_ENV = Unset
  /\ env.AWS_PROFILE = Unset
  /\ env.AWS_ACCESS_KEY_ID = Unset

\* ------------------------------------------- wait for the distribution: state
VARIABLES
  distStatus,      \* Distribution.Status at the service
  interval,        \* the timer of setInterval
  waitPromise,     \* the promise waitForDeployed returned
  inFlight,        \* getDistribution requests sent and not yet answered
  issued,          \* getDistribution requests sent
  issuedSettled    \* a getDistribution request was sent after the promise settled

waitVars == <<distStatus, interval, waitPromise, inFlight, issued,
              issuedSettled>>

\* waitForDeployed is about to be called, the distribution being updated
\* or already deployed
WaitInit ==
  /\ distStatus \in {"InProgress", "Deployed"}
  /\ interval = "none"
  /\ waitPromise = "none"
  /\ inFlight = 0
  /\ issued = 0
  /\ issuedSettled = FALSE

\* waitForDeployed is not called
WaitIdle ==
  /\ WaitInit
  /\ distStatus = "Deployed"

nonDeployVars == <<requestVars, setupVars, stageVars, waitVars>>
nonRequestVars == <<deployVars, setupVars, stageVars, waitVars>>
nonSetupVars == <<deployVars, requestVars, stageVars, waitVars>>
nonStageVars == <<deployVars, requestVars, setupVars, waitVars>>
nonWaitVars == <<deployVars, requestVars, setupVars, stageVars>>
vars == <<deployVars, requestVars, setupVars, stageVars, waitVars>>

NoFetch == [etag |-> 0 - 1, originPath |-> <<>>, comment |-> 0]

InitialOriginPath == <<>>

\* The state left by earlier releases, of patch numbers in Rel: the versions
\* of P were released in full, in the order of their numbers; when n > 0 the
\* latest release, of the package version, failed during upload after its
\* first n files were put.  The bucket holds the objects of one of the sets
\* of others besides.
ReleasedBefore(Rel, others) ==
  /\ pkgVersion \in Rel
  /\ distTree = Files
  /\ \E P \in SUBSET Rel, n \in 0..(MaxFiles - 1), O \in others :
       /\ n > 0 => pkgVersion \notin P
       /\ bucket = [k \in Keys |->
                      IF \E p \in P, f \in Files : k = KeyOf(VersionStr(p), f)
                      THEN 1
                      ELSE IF \E f \in 1..n : k = KeyOf(VersionStr(pkgVersion), f)
                      THEN 1
                      ELSE IF k \in O THEN 1 ELSE 0]
       /\ created = SelectSeq([i \in 1..LastPatch |-> VersionStr(i)],
                              LAMBDA v : v \in {VersionStr(p) : p \in P})
                      \o (IF n > 0 THEN <<VersionStr(pkgVersion)>> ELSE <<>>)
       /\ failedUpload = IF n > 0 THEN {VersionStr(pkgVersion)} ELSE {}

\* no process has been started
NothingStarted ==
  /\ runs = 0
  /\ pc = "idle"
  /\ flow = "none"
  /\ autoDeploy = FALSE
  /\ tasks = "none"
  /\ version = <<>>
  /\ deployed = FALSE
  /\ override = "none"
  /\ files = {}
  /\ dispatched = FALSE
  /\ upload = [f \in Files |-> "none"]
  /\ cutoverInvoked = FALSE
  /\ fetched = NoFetch
  /\ submitted = 0
  /\ updateResult = "none"
  /\ exitCode = 0
  /\ current = <<>>
  /\ versions = <<>>
  /\ selected = <<>>
  /\ contents = {}
  /\ deleted = {}
  /\ snapshot = <<>>
  /\ listed = FALSE
  /\ pruneResult = "none"
  /\ versionCalls = 0
  /\ rewrote = {}
  /\ hadObjects = FALSE
  /\ retry = FALSE
  /\ invalidation = "none"
  /\ listing = "none"
  /\ settledLate = {}
  /\ spawnStatus = "none"

\* the versions whose dist files are all in the bucket
ReleasedInFull(b) ==
  {v \in VersionStrs : \A f \in Files : b[KeyOf(v, f)] > 0}

\* the distribution has never been cut over; the bucket holds releases only
DeployInit ==
  /\ ReleasedBefore(Patches, {{}})
  /\ dist = [etag |-> 0, originPath |-> InitialOriginPath, comment |-> 0]
  /\ originComplete = FALSE
  /\ NothingStarted

\* deploy/prune.ts is about to be started: the distribution has its initial
\* origin or that of the latest cutover that succeeded, to a version released
\* in full; the cutover of the versions uploaded after it was rejected or
\* never made, and the package version is any of the versions; the bucket
\* may hold an object outside the version prefixes
PruneInit ==
  /\ ReleasedBefore(Patches, SUBSET OtherKeys)
  /\ \E o \in {InitialOriginPath}
               \cup {OriginPathOf(v) : v \in ReleasedInFull(bucket)} :
       /\ dist = [etag |-> 0, originPath |-> o, comment |-> 0]
       /\ originComplete = (o # InitialOriginPath)
  /\ NothingStarted

\* no deploy or prune process is started: an empty bucket, nothing running
DeployIdle ==
  /\ DeployInit
  /\ pkgVersion = 1
  /\ Present(bucket) = {}

Init == DeployInit /\ RequestIdle /\ SetupIdle /\ StageIdle /\ WaitIdle

Terminal == {"done", "failed", "canceled"}

Pending == {f \in Files : upload[f] = "pending"}

\* the node process has exited: its flow has ended and no request is in flight
Exited == pc = "idle" \/ (pc \in Terminal /\ Pending = {})

\* ------------------------------------------------------- deploy: start
\* deploy/app/index.ts is loaded: module state is fresh
StartDeploy(auto) ==
  /\ Exited
  /\ runs < MaxRuns
  /\ runs' = runs + 1
  /\ pc' = "prep"
  /\ flow' = "deploy"
  /\ autoDeploy' = auto
  /\ tasks' = "none"
  /\ version' = <<>>
  /\ deployed' = FALSE
  /\ override' = "none"
  /\ files' = {}
  /\ dispatched' = FALSE
  /\ upload' = [f \in Files |-> "none"]
  /\ cutoverInvoked' = FALSE
  /\ fetched' = NoFetch
  /\ submitted' = 0
  /\ updateResult' = "none"
  /\ exitCode' = 0
  /\ current' = <<>>
  /\ versions' = <<>>
  /\ selected' = <<>>
  /\ contents' = {}
  /\ deleted' = {}
  /\ snapshot' = <<>>
  /\ listed' = FALSE
  /\ pruneResult' = "none"
  /\ versionCalls' = 0
  /\ rewrote' = {}
  /\ hadObjects' = FALSE
  /\ retry' = FALSE
  /\ invalidation' = "none"
  /\ listing' = "none"
  /\ settledLate' = {}
  /\ spawnStatus' = "none"
  /\ UNCHANGED <<pkgVersion, distTree, bucket, created, dist, originComplete,
                 failedUpload>>
  /\ UNCHANGED nonDeployVars

\* catch (err) { spinner.fail(err.message); process.exitCode = 1; }
Fail == pc' = "failed" /\ exitCode' = 1

\* const tasks = autoDeploy ? 'rebuild' : await promptPrepTasks();
SelectTasks(t) ==
  /\ pc = "prep"
  /\ flow = "deploy"
  /\ autoDeploy => t = "rebuild"
  /\ t = "version-rebuild" => pkgVersion + 1 \in Patches
  /\ tasks' = t
  /\ pc' = CASE t = "version-rebuild" -> "bump"
             [] t = "rebuild" -> "rebuild"
             [] OTHER -> "check"
  /\ UNCHANGED <<envVars, exitCode, flow, autoDeploy, version, deployed,
                 override, files, dispatched, upload, cutoverInvoked, fetched,
                 submitted, updateResult, pruneVars, histVars>>
  /\ UNCHANGED nonDeployVars

\* the exit status of the task is not looked at
StatusIgnored(ok) == FALSE

\* if (spawn.status !== 0) { throw new Error(); }, rethrown by main as
\* 'Preparation task failed!'
StatusThrows(ok) == ~ok

\* spawnSync('npm', ['version', 'patch'])
bumpPatchVersion(ok) ==
  /\ pc = "bump"
  /\ spawnStatus' = IF ok THEN "zero" ELSE "nonzero"
  /\ pkgVersion' = IF ok THEN pkgVersion + 1 ELSE pkgVersion
  /\ IF StatusThrows(ok)
     THEN Fail
     ELSE /\ pc' = "rebuild"
          /\ UNCHANGED exitCode
  /\ UNCHANGED <<distTree, bucket, created, dist, runs, runVars, pruneVars,
                 originComplete, rewrote, failedUpload, hadObjects, retry,
                 invalidation, listing, settledLate>>
  /\ UNCHANGED nonDeployVars

\* spawnSync('npm', ['run', 'build'])
rebuildDists(ok, tree) ==
  /\ pc = "rebuild"
  /\ spawnStatus' = IF ok THEN "zero" ELSE "nonzero"
  /\ distTree' = IF ok THEN tree ELSE distTree
  /\ IF StatusThrows(ok)
     THEN Fail
     ELSE /\ pc' = "check"
          /\ UNCHANGED exitCode
  /\ UNCHANGED <<pkgVersion, bucket, created, dist, runs, runVars, pruneVars,
                 originComplete, rewrote, failedUpload, hadObjects, retry,
                 invalidation, listing, settledLate>>
  /\ UNCHANGED nonDeployVars


\* ------------------------------------------------- deploy: idempotency
\* Prefix: posix.join(version), without the "v" of the keys
checkIfVersionDeployedNoV(b, v) == ListObjects(b, v) # {}

\* Contents.length > 1
checkIfVersionDeployedGt1(b, v) == Cardinality(ListObjects(b, <<ChV>> \o v)) > 1

\* Contents && Contents.length > 0, for Prefix `v${version}`, MaxKeys 1
checkIfVersionDeployed(b, v) == ListObjects(b, <<ChV>> \o v) # {}

\* uploadFiles(Bucket, v) up to its return: files.map dispatches every upload, unless
\* readFileSync/gzipSync throws for a file k, which leaves the uploads of
\* the files before k in flight.  Promise.all([]) resolves at once and
\* deploy goes on to call updateDistConfig.
Dispatch(v) ==
  /\ files' = distTree
  /\ dispatched' = TRUE
  /\ \/ /\ upload' = [f \in Files |->
                        IF f \in distTree THEN "pending" ELSE "none"]
        /\ IF distTree = {}
           THEN pc' = "cutover_get" /\ cutoverInvoked' = TRUE
           ELSE pc' = "uploading" /\ cutoverInvoked' = FALSE
        /\ UNCHANGED <<exitCode, failedUpload>>
     \/ \E k \in distTree :
          /\ GzipFile(k)
          /\ upload' = [f \in Files |->
                          IF f \in distTree /\ f < k THEN "pending"
                          ELSE IF f = k THEN "threw" ELSE "none"]
          /\ cutoverInvoked' = FALSE
          /\ failedUpload' = failedUpload \cup {v}
          /\ Fail

\* deployed alone cancels: the operator is never asked
CanceledWhenDeployed(d, auto) == d

\* deployed && (autoDeploy || ...): canceled before the operator is asked
CanceledUnasked(d, auto) == d /\ auto

\* try { ... await s3.listObjects(params).promise() } catch { }: the
\* rejection is swallowed and Contents is undefined
ListingSwallowed(ok) == FALSE

\* const { Contents } = await s3.listObjects(params).promise(): a rejected
\* request throws out of checkIfVersionDeployed, up to the catch of main
ListingThrows(ok) == ~ok

\* const version = getNewVersion(); ... checkIfVersionDeployed(bucket, version)
\* and the code up to the next await
CheckDeployed(ok) ==
  /\ pc = "check"
  /\ version' = VersionStr(pkgVersion)
  /\ hadObjects' = (ok /\ version' \in VersionsPresent(bucket))
  /\ retry' = (hadObjects' /\ version' \in failedUpload)
  /\ listing' = IF ok THEN "answered" ELSE "failed"
  /\ IF ListingThrows(ok)
     THEN /\ Fail
          /\ UNCHANGED <<deployed, files, dispatched, upload, cutoverInvoked,
                         failedUpload>>
     ELSE /\ deployed' = (ok /\ checkIfVersionDeployed(bucket, version'))
          /\ IF CanceledUnasked(deployed', autoDeploy)
             THEN /\ pc' = "canceled"
                  /\ UNCHANGED <<exitCode, files, dispatched, upload,
                                 cutoverInvoked, failedUpload>>
             ELSE IF deployed'
             THEN /\ pc' = "confirm_override"
                  /\ UNCHANGED <<exitCode, files, dispatched, upload,
                                 cutoverInvoked, failedUpload>>
             ELSE Dispatch(version')
  /\ UNCHANGED <<envVars, flow, autoDeploy, tasks, override, fetched,
                 submitted, updateResult, pruneVars, originComplete, rewrote,
                 invalidation, settledLate, spawnStatus>>
  /\ UNCHANGED nonDeployVars

\* confirmPrompt('This version has already been deployed. Proceed anyway?')
ConfirmOverride(answer) ==
  /\ pc = "confirm_override"
  /\ override' = IF answer THEN "yes" ELSE "no"
  /\ IF answer
     THEN Dispatch(version)
     ELSE /\ pc' = "canceled"
          /\ UNCHANGED <<exitCode, files, dispatched, upload, cutoverInvoked,
                         failedUpload>>
  /\ UNCHANGED <<envVars, flow, autoDeploy, tasks, version, deployed, fetched,
                 submitted, updateResult, pruneVars, originComplete, rewrote,
                 hadObjects, retry, invalidation, listing, settledLate,
                 spawnStatus>>
  /\ UNCHANGED nonDeployVars

\* ------------------------------------------------------ deploy: uploads
\* Promise.allSettled in place of Promise.all: a failed upload does not reject
PromiseAllSettled(fs, up) ==
  IF \A f \in fs : up[f] \in {"ok", "failed"} THEN "resolved" ELSE "pending"

\* Promise.race in place of Promise.all: the first upload to settle decides
PromiseRace(fs, up) ==
  IF \E f \in fs : up[f] = "failed" THEN "rejected"
  ELSE IF \E f \in fs : up[f] = "ok" THEN "resolved"
  ELSE "pending"

\* Promise.any in place of Promise.all: one upload that succeeds resolves it,
\* whatever the others do
PromiseAny(fs, up) ==
  IF \E f \in fs : up[f] = "ok" THEN "resolved"
  ELSE IF \A f \in fs : up[f] = "failed" THEN "rejected"
  ELSE "pending"

\* Promise.all over the uploads of fs, given their states up
PromiseAll(fs, up) ==
  IF \E f \in fs : up[f] = "failed" THEN "rejected"
  ELSE IF \A f \in fs : up[f] = "ok" THEN "resolved"
  ELSE "pending"

\* one s3.upload settles.  Promise.all rejects at the first failure and
\* resolves when the last upload has succeeded; deploy then calls
\* updateDistConfig, whose first request is getDistributionConfig.
UploadSettled(f, ok) ==
  /\ upload[f] = "pending"
  /\ upload' = [upload EXCEPT ![f] = IF ok THEN "ok" ELSE "failed"]
  /\ IF ok
     THEN /\ bucket' = [bucket EXCEPT ![KeyOf(version, f)] = 1]
          /\ created' = CreatedAfter(created, bucket')
          /\ rewrote' = IF bucket[KeyOf(version, f)] > 0
                        THEN rewrote \cup {KeyOf(version, f)} ELSE rewrote
     ELSE UNCHANGED <<bucket, created, rewrote>>
  /\ settledLate' = IF ok /\ pc = "failed" THEN settledLate \cup {f}
                    ELSE settledLate
  /\ failedUpload' = IF ~ok THEN failedUpload \cup {version}
                     ELSE IF PromiseAll(files, upload') = "resolved"
                     THEN failedUpload \ {version}
                     ELSE failedUpload
  /\ IF pc = "uploading" /\ PromiseAll(files, upload') = "rejected"
     THEN /\ Fail
          /\ UNCHANGED cutoverInvoked
     ELSE IF pc = "uploading" /\ PromiseAll(files, upload') = "resolved"
     THEN /\ pc' = "cutover_get"
          /\ cutoverInvoked' = TRUE
          /\ UNCHANGED exitCode
     ELSE UNCHANGED <<pc, exitCode, cutoverInvoked>>
  /\ UNCHANGED <<pkgVersion, distTree, dist, runs, flow, autoDeploy, tasks,
                 version, deployed, override, files, dispatched, fetched,
                 submitted, updateResult, pruneVars, originComplete,
                 hadObjects, retry, invalidation, listing, spawnStatus>>
  /\ UNCHANGED nonDeployVars

\* ------------------------------------------------------ deploy: cutover
\* cloudfront.getDistributionConfig({ Id: distId })
GetDistributionConfig(ok) ==
  /\ pc = "cutover_get"
  /\ IF ok
     THEN /\ fetched' = dist
          /\ pc' = "cutover_update"
          /\ UNCHANGED exitCode
     ELSE /\ Fail
          /\ UNCHANGED fetched
  /\ UNCHANGED <<envVars, flow, autoDeploy, tasks, version, deployed, override,
                 files, dispatched, upload, cutoverInvoked, submitted,
                 updateResult, pruneVars, histVars>>
  /\ UNCHANGED nonDeployVars

\* IfMatch taken from the live configuration instead of the fetched one
IfMatchLive(distConfig, live) == live.etag

\* IfMatch: distConfig.ETag, of the configuration fetched by this call; live
\* is the configuration at the service when the request arrives
IfMatchOf(distConfig, live) == distConfig.etag

\* the fetched DistributionConfig is submitted as it is
NewConfigAsFetched(distConfig, v) == distConfig

\* the DistributionConfig that updateDistConfig submits
NewConfig(distConfig, v) == [distConfig EXCEPT !.originPath = OriginPathOf(v)]

\* await confirmPrompt(...) whatever autoDeploy is
AlwaysPrompts(auto) == FALSE

\* autoDeploy || await confirmPrompt(...): with autoDeploy the prompt is not
\* evaluated
SkipsPrompt(auto) == auto

\* cloudfront.updateDistribution({ Id, IfMatch, DistributionConfig }): the
\* service applies the update when IfMatch is the current ETag and answers
\* PreconditionFailed otherwise
UpdateDistribution(ok) ==
  /\ pc = "cutover_update"
  /\ submitted' = submitted + 1
  /\ IF ok /\ IfMatchOf(fetched, dist) = dist.etag
     THEN /\ dist' = [NewConfig(fetched, version) EXCEPT !.etag = dist.etag + 1]
          /\ originComplete' = \A f \in files : bucket[KeyOf(version, f)] > 0
          /\ updateResult' = "ok"
          /\ pc' = IF SkipsPrompt(autoDeploy) THEN "invalidate"
                   ELSE "confirm_invalidate"
          /\ UNCHANGED exitCode
     ELSE /\ updateResult' = IF ok THEN "precondition_failed" ELSE "error"
          /\ Fail
          /\ UNCHANGED <<dist, originComplete>>
  /\ UNCHANGED <<pkgVersion, distTree, bucket, created, runs, flow, autoDeploy,
                 tasks, version, deployed, override, files, dispatched,
                 upload, cutoverInvoked, fetched, pruneVars, rewrote,
                 failedUpload, hadObjects, retry, invalidation, listing,
                 settledLate, spawnStatus>>
  /\ UNCHANGED nonDeployVars

\* another actor updates the distribution configuration while updateDistConfig
\* runs (at any other time the run cannot tell the change from the initial
\* configuration)
ConcurrentChange ==
  /\ pc \in {"cutover_get", "cutover_update"}
  /\ dist.etag < MaxETag
  /\ dist' = [dist EXCEPT !.etag = @ + 1, !.comment = @ + 1]
  /\ UNCHANGED <<pkgVersion, distTree, bucket, created, runs, pc, exitCode,
                 runVars, pruneVars, histVars>>
  /\ UNCHANGED nonDeployVars


\* ------------------------------------------------------------ retention
\* Prefix.replace(/^v?([^/]+)\/?$/, '$1')
StripVersion(s) ==
  LET body == IF s # <<>> /\ s[Len(s)] = ChSlash
              THEN SubSeq(s, 1, Len(s) - 1) ELSE s
      matches == body # <<>> /\ \A i \in 1..Len(body) : body[i] # ChSlash
  IN  IF ~matches THEN s
      ELSE IF Len(body) > 1 /\ body[1] = ChV THEN Tail(body)
      ELSE body

\* CommonPrefixes.map(...).reverse()
listVersionsInBucket(b) ==
  LET cp == CommonPrefixes(b)
  IN  Reverse([i \in 1..Len(cp) |-> StripVersion(cp[i])])

\* if (versions.length < 3)
TooFewVersions3(vs) == Len(vs) < 3

\* if (versions.length < 4)
TooFewVersions(vs) == Len(vs) < 4

\* index i of the code is i - 1 here
\* versions.filter((value, i) => value !== current && i > 2)
AutoSelected(vs, cur) ==
  LET keep(i) == vs[i] # cur /\ (i - 1) > 2
      idx == {i \in 1..Len(vs) : keep(i)}
      RECURSIVE Pick(_)
      Pick(i) == IF i > Len(vs) THEN <<>>
                 ELSE (IF i \in idx THEN <<vs[i]>> ELSE <<>>) \o Pick(i + 1)
  IN  Pick(1)

\* promptVersions: choices, with (i < 2) for the previous versions
ChoicesPreviousTwo(vs, cur) ==
  [i \in 1..Len(vs) |->
     IF vs[i] = cur THEN [disabled |-> TRUE, checked |-> FALSE, value |-> vs[i]]
     ELSE IF (i - 1) < 2
     THEN [disabled |-> TRUE, checked |-> FALSE, value |-> vs[i]]
     ELSE [disabled |-> FALSE, checked |-> TRUE, value |-> vs[i]]]

\* promptVersions: choices: versions.map((value, i) => ...); a choice
\* without disabled is not disabled
Choices(vs, cur) ==
  [i \in 1..Len(vs) |->
     IF vs[i] = cur THEN [disabled |-> TRUE, checked |-> FALSE, value |-> vs[i]]
     ELSE IF (i - 1) < 3
     THEN [disabled |-> TRUE, checked |-> FALSE, value |-> vs[i]]
     ELSE [disabled |-> FALSE, checked |-> TRUE, value |-> vs[i]]]

\* promptVersions: the choices that are not disabled
Enabled(vs, cur) == {i \in 1..Len(vs) : ~Choices(vs, cur)[i].disabled}

\* the checked values, in the order of the choices
Checked(vs, I) ==
  LET RECURSIVE Pick(_)
      Pick(i) == IF i > Len(vs) THEN <<>>
                 ELSE (IF i \in I THEN <<vs[i]>> ELSE <<>>) \o Pick(i + 1)
  IN  Pick(1)

\* prunePreviousVersions returns to its caller
PruneReturns(result) ==
  /\ pruneResult' = result
  /\ pc' = IF flow = "deploy" THEN "show" ELSE "done"
  /\ UNCHANGED exitCode

\* a rejected request is tried again for the same version
PruneTriesAgain ==
  /\ pruneResult' = "error"
  /\ pc' = IF pc = "prune_list" THEN "failed" ELSE "prune_list_version"
  /\ exitCode' = 1

\* a request of prunePreviousVersions is rejected: deploy's catch sets the
\* exit code; deploy/prune.ts has no handler, so the exit code is the one
\* node gives an unhandled rejection
PruneThrows ==
  /\ pruneResult' = "error"
  /\ pc' = "failed"
  /\ IF flow = "deploy" THEN exitCode' = 1 ELSE exitCode' \in {0, 1}

\* for (const version of selected): next iteration, or the end of the loop
PruneLoop(sel) ==
  IF sel = <<>> THEN PruneReturns("returned")
  ELSE /\ pc' = "prune_list_version"
       /\ UNCHANGED <<exitCode, pruneResult>>

\* deploy/prune.ts is loaded and calls prunePreviousVersions(bucket, version)
StartPrune(auto) ==
  /\ Exited
  /\ runs < MaxRuns
  /\ runs' = runs + 1
  /\ pc' = "prune_list"
  /\ flow' = "prune"
  /\ autoDeploy' = auto
  /\ tasks' = "none"
  /\ version' = VersionStr(pkgVersion)
  /\ current' = VersionStr(pkgVersion)
  /\ deployed' = FALSE
  /\ override' = "none"
  /\ files' = {}
  /\ dispatched' = FALSE
  /\ upload' = [f \in Files |-> "none"]
  /\ cutoverInvoked' = FALSE
  /\ fetched' = NoFetch
  /\ submitted' = 0
  /\ updateResult' = "none"
  /\ exitCode' = 0
  /\ versions' = <<>>
  /\ selected' = <<>>
  /\ contents' = {}
  /\ deleted' = {}
  /\ snapshot' = <<>>
  /\ listed' = FALSE
  /\ pruneResult' = "running"
  /\ versionCalls' = 0
  /\ rewrote' = {}
  /\ hadObjects' = FALSE
  /\ retry' = FALSE
  /\ invalidation' = "none"
  /\ listing' = "none"
  /\ settledLate' = {}
  /\ spawnStatus' = "none"
  /\ UNCHANGED <<pkgVersion, distTree, bucket, created, dist, originComplete,
                 failedUpload>>
  /\ UNCHANGED nonDeployVars

\* const versions = await listVersionsInBucket(Bucket); and the code up to
\* the next await
PruneListVersions(ok) ==
  /\ pc = "prune_list"
  /\ IF ~ok
     THEN /\ PruneThrows
          /\ UNCHANGED <<versions, selected, snapshot, listed>>
     ELSE /\ versions' = listVersionsInBucket(bucket)
          /\ snapshot' = created
          /\ listed' = TRUE
          /\ IF TooFewVersions(versions')
             THEN /\ PruneReturns("warned")
                  /\ UNCHANGED selected
             ELSE /\ selected' = AutoSelected(versions', current)
                  /\ IF autoDeploy
                     THEN PruneLoop(selected')
                     ELSE /\ pc' = "prune_prompt"
                          /\ UNCHANGED <<exitCode, pruneResult>>
  /\ UNCHANGED <<envVars, runVars, current, contents, deleted, versionCalls,
                 histVars>>
  /\ UNCHANGED nonDeployVars

\* selected = await promptVersions(current, versions)
promptVersions(I) ==
  /\ pc = "prune_prompt"
  /\ I \subseteq Enabled(versions, current)
  /\ selected' = Checked(versions, I)
  /\ PruneLoop(selected')
  /\ UNCHANGED <<envVars, runVars, current, versions, contents, deleted,
                 snapshot, listed, versionCalls, histVars>>
  /\ UNCHANGED nonDeployVars

\* Prefix: `v${version}/`
DeletePrefixOf(v) == <<ChV>> \o v \o <<ChSlash>>

\* deleteVersionFromBucket: listObjects({ Prefix: `v${version}/` })
DeleteListObjects(ok) ==
  /\ pc = "prune_list_version"
  /\ versionCalls' = versionCalls + 1
  /\ IF ok
     THEN /\ contents' = ListObjects(bucket, DeletePrefixOf(Head(selected)))
          /\ pc' = "prune_delete_version"
          /\ UNCHANGED <<exitCode, pruneResult>>
     ELSE /\ PruneThrows
          /\ UNCHANGED contents
  /\ UNCHANGED <<envVars, runVars, current, versions, selected, deleted,
                 snapshot, listed, histVars>>
  /\ UNCHANGED nonDeployVars

\* the keys the service deletes: those of the request but the ones it
\* reports in the Errors of its answer
DeletedKeys(objects, errors) == objects \ errors

\* deleteVersionFromBucket: deleteObjects({ Delete: { Objects } }); the
\* service rejects a request without objects; the request it accepts is
\* answered with the keys it could not delete in Errors (none, or one of
\* them here), and the answer is not read
DeleteObjects(ok) ==
  /\ pc = "prune_delete_version"
  /\ versionCalls' = versionCalls + 1
  /\ IF ok /\ contents # {}
     THEN /\ \E errors \in {{}} \cup {{k} : k \in contents} :
               bucket' = [k \in Keys |->
                            IF k \in DeletedKeys(contents, errors) THEN 0
                            ELSE bucket[k]]
          /\ created' = CreatedAfter(created, bucket')
          /\ deleted' = deleted \cup {Head(selected)}
          /\ selected' = Tail(selected)
          /\ failedUpload' = failedUpload \cap VersionsPresent(bucket')
          /\ PruneLoop(selected')
     ELSE /\ PruneThrows
          /\ UNCHANGED <<bucket, created, deleted, selected, failedUpload>>
  /\ UNCHANGED <<pkgVersion, distTree, dist, runs, runVars, current, versions,
                 contents, snapshot, listed, originComplete, rewrote,
                 hadObjects, retry, invalidation, listing, settledLate,
                 spawnStatus>>
  /\ UNCHANGED nonDeployVars

\* ------------------------------------------------ deploy: after cutover
\* the prompt of the pruning follows the if-block of the invalidation
DeclinedInvalidationAsksPrune == "confirm_prune"

\* if (autoDeploy || await confirmPrompt('Invalidate the distribution?'))
\* { ... }: the prompt of the pruning is inside the block, and a declined
\* invalidation goes on at showDistributionDomains
DeclinedInvalidation == "show"

\* confirmPrompt('Invalidate the distribution?')
ConfirmInvalidate(answer) ==
  /\ pc = "confirm_invalidate"
  /\ pc' = IF answer THEN "invalidate" ELSE DeclinedInvalidation
  /\ UNCHANGED <<envVars, exitCode, runVars, pruneVars, histVars>>
  /\ UNCHANGED nonDeployVars

\* the rejection of createInvalidation is caught and the flow goes on
InvalidationSwallowed(ok) == FALSE

\* await invalidateDist(distId): a rejected createInvalidation throws out of
\* deploy, up to the catch of main
InvalidationThrows(ok) == ~ok

\* await invalidateDist(distId), and the code up to the next await
InvalidateDist(ok) ==
  /\ pc = "invalidate"
  /\ invalidation' = IF ok THEN "requested" ELSE "failed"
  /\ IF InvalidationThrows(ok)
     THEN /\ Fail
          /\ UNCHANGED <<current, pruneResult>>
     ELSE IF SkipsPrompt(autoDeploy)
     THEN /\ pc' = "prune_list"
          /\ current' = version
          /\ pruneResult' = "running"
          /\ UNCHANGED exitCode
     ELSE /\ pc' = "confirm_prune"
          /\ UNCHANGED <<exitCode, current, pruneResult>>
  /\ UNCHANGED <<envVars, runVars, versions, selected, contents, deleted,
                 snapshot, listed, versionCalls, originComplete, rewrote,
                 failedUpload, hadObjects, retry, listing, settledLate,
                 spawnStatus>>
  /\ UNCHANGED nonDeployVars

\* confirmPrompt('Prune old deployed versions?')
ConfirmPrune(answer) ==
  /\ pc = "confirm_prune"
  /\ IF answer
     THEN /\ pc' = "prune_list"
          /\ current' = version
          /\ pruneResult' = "running"
     ELSE /\ pc' = "show"
          /\ UNCHANGED <<current, pruneResult>>
  /\ UNCHANGED <<envVars, exitCode, runVars, versions, selected, contents,
                 deleted, snapshot, listed, versionCalls, histVars>>
  /\ UNCHANGED nonDeployVars

\* await showDistributionDomains(distId); spinner.succeed('Deploy complete!')
ShowDistributionDomains(ok) ==
  /\ pc = "show"
  /\ IF ok
     THEN pc' = "done" /\ UNCHANGED exitCode
     ELSE Fail
  /\ UNCHANGED <<envVars, runVars, pruneVars, histVars>>
  /\ UNCHANGED nonDeployVars

\* ------------------------------------------------------- specification
Next ==
  \/ \E auto \in BOOLEAN : StartDeploy(auto)
  \/ \E t \in {"version-rebuild", "rebuild", "nothing"} : SelectTasks(t)
  \/ \E ok \in BOOLEAN : bumpPatchVersion(ok)
  \* the build leaves the whole file set in dist, or nothing
  \/ \E ok \in BOOLEAN, tree \in {{}, Files} : rebuildDists(ok, tree)
  \/ \E ok \in BOOLEAN : CheckDeployed(ok)
  \/ \E answer \in BOOLEAN : ConfirmOverride(answer)
  \/ \E f \in Files, ok \in BOOLEAN : UploadSettled(f, ok)
  \/ \E ok \in BOOLEAN : GetDistributionConfig(ok)
  \/ \E ok \in BOOLEAN : UpdateDistribution(ok)
  \/ ConcurrentChange
  \/ \E answer \in BOOLEAN : ConfirmInvalidate(answer)
  \/ \E ok \in BOOLEAN : InvalidateDist(ok)
  \/ \E answer \in BOOLEAN : ConfirmPrune(answer)
  \/ \E ok \in BOOLEAN : ShowDistributionDomains(ok)
  \/ \E auto \in BOOLEAN : StartPrune(auto)
  \/ \E ok \in BOOLEAN : PruneListVersions(ok)
  \/ \E I \in SUBSET (1..Len(versions)) : promptVersions(I)
  \/ \E ok \in BOOLEAN : DeleteListObjects(ok)
  \/ \E ok \in BOOLEAN : DeleteObjects(ok)

Spec == Init /\ [][Next]_vars

\* deploy/prune.ts alone
PruneNext ==
  \/ \E auto \in BOOLEAN : StartPrune(auto)
  \/ \E ok \in BOOLEAN : PruneListVersions(ok)
  \/ \E I \in SUBSET (1..Len(versions)) : promptVersions(I)
  \/ \E ok \in BOOLEAN : DeleteListObjects(ok)
  \/ \E ok \in BOOLEAN : DeleteObjects(ok)

PruneStart == RequestIdle /\ SetupIdle /\ StageIdle /\ WaitIdle /\ PruneInit

PruneSpec == PruneStart /\ [][PruneNext]_vars

\* deploy/app/index.ts started with --autoDeploy, nobody at the terminal:
\* the steps of the process and of the services, none of the operator
AutoNext ==
  \/ StartDeploy(TRUE)
  \/ \E t \in {"version-rebuild", "rebuild", "nothing"} : SelectTasks(t)
  \/ \E ok \in BOOLEAN, tree \in {{}, Files} : rebuildDists(ok, tree)
  \/ \E ok \in BOOLEAN : CheckDeployed(ok)
  \/ \E f \in Files, ok \in BOOLEAN : UploadSettled(f, ok)
  \/ \E ok \in BOOLEAN : GetDistributionConfig(ok)
  \/ \E ok \in BOOLEAN : UpdateDistribution(ok)
  \/ ConcurrentChange
  \/ \E ok \in BOOLEAN : InvalidateDist(ok)
  \/ \E ok \in BOOLEAN : ShowDistributionDomains(ok)
  \/ \E ok \in BOOLEAN : PruneListVersions(ok)
  \/ \E ok \in BOOLEAN : DeleteListObjects(ok)
  \/ \E ok \in BOOLEAN : DeleteObjects(ok)

\* a child process that was spawned exits, a request that was sent is
\* answered or rejected, and node runs the code that waits for it
AutoSpec == Init /\ [][AutoNext]_vars /\ WF_vars(AutoNext)

\* ------------------------------------------- requests: actions
\* files.map(file => ...): the callback runs for the next file of the list,
\* whose bytes are read
MapFile(bytes) ==
  /\ Len(putParams) < Cardinality(treeFiles)
  /\ fileBytes' = Append(fileBytes, bytes)
  /\ putParams' = Append(putParams,
                         PutObjectRequest(relVersion,
                                          SortLex(treeFiles)[Len(putParams) + 1],
                                          bytes))
  /\ UNCHANGED <<treeFiles, relVersion, fetchedConfig, updateParams>>
  /\ UNCHANGED nonRequestVars

\* updateDistConfig builds the request from distConfig, once the uploads
\* are through
BuildUpdate ==
  /\ Len(putParams) = Cardinality(treeFiles)
  /\ updateParams = <<>>
  /\ updateParams' =
       <<UpdateDistributionRequest(fetchedConfig, DeployBucket, relVersion)>>
  /\ UNCHANGED <<treeFiles, relVersion, putParams, fileBytes, fetchedConfig>>
  /\ UNCHANGED nonRequestVars

RequestNext ==
  \/ \E bytes \in Payloads : MapFile(bytes)
  \/ BuildUpdate

RequestStart == DeployIdle /\ SetupIdle /\ StageIdle /\ WaitIdle /\ RequestInit

RequestSpec == RequestStart /\ [][RequestNext]_vars

\* ------------------------------------------------- stack setup: actions
\* No statement of stack/index.ts assigns process.exitCode or calls
\* process.exit: catch (err) { spinner.fail(err.message); } is the whole
\* handler, so every action leaves setupExitCode as it is.
submitVars == <<validation, request, stackAtSubmit>>
pollVars == <<observed, polls, terminals, pollResult, outputs, failMessage>>

\* await stageSelect(); a rejection goes to catch (err) { spinner.fail }
stageSelect(ok) ==
  /\ spc = "stage"
  /\ spc' = IF ok THEN "confirm_headers" ELSE "failed"
  /\ UNCHANGED <<stack, isUpdate, submitVars, pollVars, envFile>>
  /\ UNCHANGED setupExitCode
  /\ UNCHANGED nonSetupVars

\* confirmPrompt('Are the above values correct?')
ConfirmHeaders(answer) ==
  /\ spc = "confirm_headers"
  /\ spc' = IF answer THEN "check_exists" ELSE "canceled"
  /\ UNCHANGED <<stack, isUpdate, submitVars, pollVars, envFile>>
  /\ UNCHANGED setupExitCode
  /\ UNCHANGED nonSetupVars

\* const isUpdate = await checkIfCurrentStackExists(StackName): true when
\* describeStacks answers, whatever the status; false when it is rejected
\* with '... does not exist'; any other rejection is thrown
checkIfCurrentStackExists(ok) ==
  /\ spc = "check_exists"
  /\ IF ~ok
     THEN /\ spc' = "failed"
          /\ UNCHANGED isUpdate
     ELSE /\ isUpdate' = (stack # "ABSENT")
          /\ spc' = IF isUpdate' THEN "confirm_update" ELSE "config"
  /\ UNCHANGED <<stack, submitVars, pollVars, envFile>>
  /\ UNCHANGED setupExitCode
  /\ UNCHANGED nonSetupVars

\* confirmPrompt('Proceed with the update?')
confirmUpdate(answer) ==
  /\ spc = "confirm_update"
  /\ spc' = IF answer THEN "config" ELSE "canceled"
  /\ UNCHANGED <<stack, isUpdate, submitVars, pollVars, envFile>>
  /\ UNCHANGED setupExitCode
  /\ UNCHANGED nonSetupVars

\* const { template, answers } = await getStackConfig(isUpdate)
getStackConfig(ok) ==
  /\ spc = "config"
  /\ spc' = IF ok THEN "confirm_config" ELSE "failed"
  /\ UNCHANGED <<stack, isUpdate, submitVars, pollVars, envFile>>
  /\ UNCHANGED setupExitCode
  /\ UNCHANGED nonSetupVars

\* confirmPrompt('Confirm values?')
ConfirmConfig(answer) ==
  /\ spc = "confirm_config"
  /\ spc' = IF answer THEN "validate" ELSE "canceled"
  /\ UNCHANGED <<stack, isUpdate, submitVars, pollVars, envFile>>
  /\ UNCHANGED setupExitCode
  /\ UNCHANGED nonSetupVars

\* validateTemplate(params.TemplateBody) without the await: its rejection
\* reaches nobody
AfterValidateUnawaited(ok) == "submit"

\* await validateTemplate(params.TemplateBody): a rejection goes to catch
AfterValidate(ok) == IF ok THEN "submit" ELSE "failed"

\* cfm.validateTemplate({ TemplateBody })
validateTemplate(ok) ==
  /\ spc = "validate"
  /\ validation' = IF ok THEN "valid" ELSE "invalid"
  /\ spc' = AfterValidate(ok)
  /\ UNCHANGED <<stack, isUpdate, request, stackAtSubmit, pollVars, envFile>>
  /\ UNCHANGED setupExitCode
  /\ UNCHANGED nonSetupVars

\* await createOrUpdateStack(isUpdate, params): the service accepts
\* createStack for a stack that does not exist and updateStack for a stack in
\* an updatable state, and starts the operation; a rejection goes to catch
createOrUpdateStack(ok) ==
  /\ spc = "submit"
  /\ request' = << IF isUpdate
                   THEN [Op |-> "updateStack",
                         Input |-> UpdateStackInput(getStackInput(isUpdate))]
                   ELSE [Op |-> "createStack",
                         Input |-> CreateStackInput(getStackInput(isUpdate))] >>
  /\ stackAtSubmit' = stack
  /\ IF ok /\ (IF isUpdate THEN stack \in Updatable ELSE stack = "ABSENT")
     THEN /\ stack' = IF isUpdate THEN "UPDATE_IN_PROGRESS"
                      ELSE "CREATE_IN_PROGRESS"
          /\ spc' = "poll_describe"
          /\ polls' = 1
     ELSE /\ spc' = "failed"
          /\ UNCHANGED <<stack, polls>>
  /\ UNCHANGED <<isUpdate, validation, observed, terminals, pollResult,
                 outputs, failMessage, envFile>>
  /\ UNCHANGED setupExitCode
  /\ UNCHANGED nonSetupVars

\* the poll cancels an update it finds in progress
StackAfterCancel(s) ==
  IF s = "UPDATE_IN_PROGRESS" THEN "UPDATE_ROLLBACK_IN_PROGRESS" ELSE s

\* cfm.describeStacks({ StackName }): the stack after the request, which
\* reads it
StackAfterDescribe(s) == s

\* checkStackStatus: const { StackStatus, Outputs } = await
\* describeStack(StackName) and the switch on StackStatus
checkStackStatus(ok) ==
  /\ spc = "poll_describe"
  /\ IF ~ok
     THEN /\ pollResult' = "threw"
          /\ spc' = "failed"
          /\ UNCHANGED <<stack, observed, terminals, outputs, failMessage>>
     ELSE /\ observed' = stack
          /\ stack' = StackAfterDescribe(stack)
          /\ IF stack \in LoopStatuses
             THEN /\ spc' = "poll_wait"
                  /\ UNCHANGED <<terminals, pollResult, outputs, failMessage>>
             ELSE IF stack \in SuccessStatuses
             THEN /\ outputs' = TRUE
                  /\ pollResult' = "succeeded"
                  /\ terminals' = terminals + 1
                  /\ spc' = "env_prompt"
                  /\ UNCHANGED failMessage
             ELSE /\ failMessage' = stack
                  /\ pollResult' = "failed"
                  /\ terminals' = terminals + 1
                  /\ spc' = "env_prompt"
                  /\ UNCHANGED outputs
  /\ UNCHANGED <<isUpdate, submitVars, polls, envFile>>
  /\ UNCHANGED setupExitCode
  /\ UNCHANGED nonSetupVars

\* await new Promise(resolve => setTimeout(resolve, 5000)); return
\* checkStackStatus(StackName, isUpdate): the next describeStack is sent.
\* polls stops counting at MaxPolls; the loop does not stop
PollTimer ==
  /\ spc = "poll_wait"
  /\ spc' = "poll_describe"
  /\ polls' = IF polls < MaxPolls THEN polls + 1 ELSE polls
  /\ UNCHANGED <<stack, isUpdate, submitVars, observed, terminals, pollResult,
                 outputs, failMessage, envFile>>
  /\ UNCHANGED setupExitCode
  /\ UNCHANGED nonSetupVars

\* if (await confirmPrompt('Update env file?'))
ConfirmEnv(answer) ==
  /\ spc = "env_prompt"
  /\ envFile' = IF answer THEN "asked" ELSE "skipped"
  /\ spc' = IF answer THEN "env" ELSE "done"
  /\ UNCHANGED <<stack, isUpdate, submitVars, pollVars>>
  /\ UNCHANGED setupExitCode
  /\ UNCHANGED nonSetupVars

\* await import('../env'): setup/env runs
EnvSetup(ok) ==
  /\ spc = "env"
  /\ envFile' = IF ok THEN "updated" ELSE envFile
  /\ spc' = IF ok THEN "done" ELSE "failed"
  /\ UNCHANGED <<stack, isUpdate, submitVars, pollVars>>
  /\ UNCHANGED setupExitCode
  /\ UNCHANGED nonSetupVars

\* the service carries the stack's operation on
StackProgress(s) ==
  /\ s \in StackSuccessors(stack)
  /\ stack' = s
  /\ UNCHANGED <<spc, isUpdate, submitVars, pollVars, envFile>>
  /\ UNCHANGED setupExitCode
  /\ UNCHANGED nonSetupVars

SetupNext ==
  \/ \E ok \in BOOLEAN : stageSelect(ok)
  \/ \E answer \in BOOLEAN : ConfirmHeaders(answer)
  \/ \E ok \in BOOLEAN : checkIfCurrentStackExists(ok)
  \/ \E answer \in BOOLEAN : confirmUpdate(answer)
  \/ \E ok \in BOOLEAN : getStackConfig(ok)
  \/ \E answer \in BOOLEAN : ConfirmConfig(answer)
  \/ \E ok \in BOOLEAN : validateTemplate(ok)
  \/ \E ok \in BOOLEAN : createOrUpdateStack(ok)
  \/ \E ok \in BOOLEAN : checkStackStatus(ok)
  \/ PollTimer
  \/ \E answer \in BOOLEAN : ConfirmEnv(answer)
  \/ \E ok \in BOOLEAN : EnvSetup(ok)
  \/ \E s \in StackStatuses : StackProgress(s)

SetupStart == DeployIdle /\ RequestIdle /\ StageIdle /\ WaitIdle /\ SetupInit

SetupSpec == SetupStart /\ [][SetupNext]_vars

\* node runs a timer that is due and the callback of a request that has
\* been answered
SetupLiveSpec ==
  /\ SetupStart
  /\ [][SetupNext]_vars
  /\ WF_vars(PollTimer)
  /\ WF_vars(\E ok \in BOOLEAN : checkStackStatus(ok))

\* ---------------------------------------------- stage selection: actions
\* the code of stageSelect from the choice of the profile to its end: the
\* check of the profile, and the assignments when it passes
SettleStage(p) ==
  /\ profile' = p
  /\ selPc' = "settled"
  /\ IF ~ValidProfile(p)
     THEN /\ selectResult' = "Invalid profile"
          /\ UNCHANGED <<env, sdkConfig, profileSet>>
     ELSE /\ env' = EnvAfter(env, p)
          /\ sdkConfig' = SdkConfigAfter(sdkConfig, p)
          /\ profileSet' = (revision = "profileSet")
          /\ selectResult' = "returned"

\* stageSelect() is called: if (profileSet) { return process.env.NODE_ENV; }
\* in the revision that has the flag
CallStageSelect ==
  /\ selPc \in {"idle", "settled"}
  /\ calls < MaxCalls
  /\ calls' = calls + 1
  /\ envAtCall' = env
  /\ sdkAtCall' = sdkConfig
  /\ IF revision = "profileSet" /\ profileSet
     THEN /\ selPc' = "settled"
          /\ selectResult' = "returned"
     ELSE /\ selPc' = "require"
          /\ selectResult' = "pending"
  /\ UNCHANGED <<stageArg, useAwsProfiles, revision, profileSet, env,
                 sdkConfig, profile>>
  /\ UNCHANGED nonStageVars

\* await require(join(slseedrc.configs, 'aws')), and with a stage given the
\* code up to the end of the function
RequireAwsConfig(ok) ==
  /\ selPc = "require"
  /\ IF ~ok
     THEN /\ selPc' = "settled"
          /\ selectResult' = "threw"
          /\ UNCHANGED <<env, sdkConfig, profileSet, profile>>
     ELSE IF Truthy(stageArg)
     THEN SettleStage(stageArg)
     ELSE /\ selPc' = "prompt"
          /\ UNCHANGED <<env, sdkConfig, profileSet, profile, selectResult>>
  /\ UNCHANGED <<stageArg, useAwsProfiles, revision, calls, envAtCall,
                 sdkAtCall>>
  /\ UNCHANGED nonStageVars

\* await prompt({ type: 'list', choices: Object.keys(profiles) }), and the
\* code up to the end of the function
PromptStage(answer) ==
  /\ selPc = "prompt"
  /\ answer \in DOMAIN AwsConfig.profiles
  /\ SettleStage(answer)
  /\ UNCHANGED <<stageArg, useAwsProfiles, revision, calls, envAtCall,
                 sdkAtCall>>
  /\ UNCHANGED nonStageVars

StageNext ==
  \/ CallStageSelect
  \/ \E ok \in BOOLEAN : RequireAwsConfig(ok)
  \/ \E answer \in DOMAIN AwsConfig.profiles : PromptStage(answer)

StageStart == DeployIdle /\ RequestIdle /\ SetupIdle /\ WaitIdle /\ StageInit

StageSpec == StageStart /\ [][StageNext]_vars

\* ------------------------------------- wait for the distribution: actions
\* waitForDeployed(Id): new Promise(...), setInterval(..., 5000)
waitForDeployed ==
  /\ waitPromise = "none"
  /\ waitPromise' = "pending"
  /\ interval' = "set"
  /\ UNCHANGED <<distStatus, inFlight, issued, issuedSettled>>
  /\ UNCHANGED nonWaitVars

\* the callback of setInterval: getDistStatus(Id) sends getDistribution.
\* The timer fires as long as it is set; issued stops the model at MaxTicks
IntervalCallback ==
  /\ interval = "set"
  /\ issued < MaxTicks
  /\ issued' = issued + 1
  /\ inFlight' = inFlight + 1
  /\ issuedSettled' = (issuedSettled \/ waitPromise \in {"resolved", "rejected"})
  /\ UNCHANGED <<distStatus, interval, waitPromise>>
  /\ UNCHANGED nonWaitVars

\* .then(status => { if (status === 'Deployed') { clearInterval(interval);
\* resolve(true); } }).catch(reject): which answers clear the timer
AnswerClears(ok) == ok /\ distStatus = "Deployed"

\* a getDistribution request is answered or rejected; resolve and reject
\* have no effect on a promise that has settled
getDistStatus(ok) ==
  /\ inFlight > 0
  /\ inFlight' = inFlight - 1
  /\ interval' = IF AnswerClears(ok) THEN "cleared" ELSE interval
  /\ waitPromise' = IF waitPromise # "pending" THEN waitPromise
                    ELSE IF ~ok THEN "rejected"
                    ELSE IF distStatus = "Deployed" THEN "resolved"
                    ELSE waitPromise
  /\ UNCHANGED <<distStatus, issued, issuedSettled>>
  /\ UNCHANGED nonWaitVars

\* the service has propagated the update
DistributionDeployed ==
  /\ distStatus = "InProgress"
  /\ distStatus' = "Deployed"
  /\ UNCHANGED <<interval, waitPromise, inFlight, issued, issuedSettled>>
  /\ UNCHANGED nonWaitVars

WaitNext ==
  \/ waitForDeployed
  \/ IntervalCallback
  \/ \E ok \in BOOLEAN : getDistStatus(ok)
  \/ DistributionDeployed

WaitStart == DeployIdle /\ RequestIdle /\ SetupIdle /\ StageIdle /\ WaitInit

WaitSpec == WaitStart /\ [][WaitNext]_vars

TypeOK ==
  /\ pkgVersion \in Patches
  /\ distTree \subseteq Files
  /\ pc \in {"idle", "prep", "bump", "rebuild", "check", "confirm_override",
             "uploading", "cutover_get", "cutover_update",
             "confirm_invalidate", "invalidate", "confirm_prune", "show",
             "prune_list", "prune_prompt", "prune_list_version",
             "prune_delete_version", "done", "failed", "canceled"}
  /\ exitCode \in {0, 1}


\* ------------------------------------------------------------ properties
AllUploaded == dispatched /\ \A f \in files : upload[f] = "ok"

NoUploadWithoutOverride ==
  (flow = "deploy" /\ hadObjects) =>
    /\ deployed
    /\ dispatched => override = "yes"
    /\ cutoverInvoked => override = "yes"
    /\ override # "yes" => rewrote = {} /\ \A f \in Files : upload[f] = "none"

OverrideGiven ==
  /\ hadObjects
  /\ override = "yes"
  /\ \E f \in files : upload[f] = "ok"

\* C4: when the version is already in storage and the override is declined,
\* the flow aborts with a non-zero exit code, without upload or cutover.
DeclinedExitsNonZero ==
  (flow = "deploy" /\ hadObjects /\ override = "no" /\ pc = "canceled") =>
    /\ exitCode # 0
    /\ ~dispatched
    /\ ~cutoverInvoked

\* C5, as stated: a re-run of a release that failed during upload goes ahead
\* in interactive and in automatic mode alike (unless the operator declines).
RetryInAnyMode ==
  (flow = "deploy" /\ retry /\ override # "no") => pc # "canceled"

\* C5, amended: in interactive mode, once the operator has confirmed, the
\* re-run starts the upload of the whole dist tree again and, when every
\* upload succeeds, invokes the cutover to v<V>; it is canceled only by the
\* operator's answer.  In automatic mode the re-run is canceled without
\* any upload.
RetryInteractiveOnly ==
  (flow = "deploy" /\ retry) =>
    /\ autoDeploy => ~dispatched /\ pc = "canceled"
    /\ (~autoDeploy /\ pc = "canceled") => override = "no"
    /\ override = "yes" =>
         /\ dispatched
         /\ files = distTree
         /\ (\A f \in Files : upload[f] # "threw") =>
              \A f \in files : upload[f] \in {"pending", "ok", "failed"}
         /\ AllUploaded => cutoverInvoked
         /\ updateResult = "ok" => dist.originPath = OriginPathOf(version)

RetryCutOver ==
  /\ retry
  /\ override = "yes"
  /\ updateResult = "ok"
  /\ rewrote # {}

\* the (at most two) versions created just before cur, in the order `order`
RecentBefore(order, cur) ==
  {order[j] : j \in {i \in 1..Len(order) :
      \E c \in 1..Len(order) : order[c] = cur /\ i < c /\ i >= c - 2}}

\* C6: prunePreviousVersions never deletes the current version nor the two
\* most recent versions preceding it, in automatic and interactive mode.
PruneKeepsCurrentAndTwo ==
  \A v \in deleted : v # current /\ v \notin RecentBefore(snapshot, current)

ListedByRecency == listed => versions = Reverse(snapshot)

\* C9, as stated: no deploy run puts an object over an existing key.
NeverRewritten == rewrote = {}

\* C9, amended: a deploy run puts an object over an existing key only when it
\* re-deploys the version of that key after the operator has confirmed
\* 'Proceed anyway?'; a run in automatic mode, or of another version, never
\* does.
RewrittenOnlyByOverride ==
  rewrote # {} =>
    /\ flow = "deploy"
    /\ ~autoDeploy
    /\ deployed
    /\ override = "yes"
    /\ \A k \in rewrote : UpToSlash(k) = <<ChV>> \o version \o <<ChSlash>>

RewrittenByOverride ==
  /\ rewrote # {}
  /\ override = "yes"
  /\ pc = "done"

\* C10: the update is conditioned on the ETag of the run's own
\* getDistributionConfig: when the configuration has changed since, the
\* request is rejected, the run fails, and the other actor's change stays.
StaleUpdateRejected ==
  [][ /\ dist'.comment >= dist.comment
      /\ (pc = "cutover_update" /\ pc' # pc /\ fetched.etag # dist.etag) =>
           (dist' = dist /\ updateResult' # "ok" /\ pc' = "failed") ]_vars

UpdateRejected ==
  /\ updateResult = "precondition_failed"
  /\ dist.comment > fetched.comment
  /\ pc = "failed"

\* C11: for a distribution with one origin, the configuration that
\* updateDistConfig submits has the fields of the fetched one, with the same
\* values, except DefaultRootObject, the origin's DomainName, Id and
\* OriginPath, and DefaultCacheBehavior.TargetOriginId.
UpdateKeepsOtherFields ==
  (updateParams # <<>> /\ fetchedConfig.DistributionConfig.Origins.Quantity = 1) =>
    LET old == fetchedConfig.DistributionConfig
        new == updateParams[1].DistributionConfig
        oldOrigin == old.Origins.Items[1]
        newOrigin == new.Origins.Items[1]
    IN  /\ DOMAIN new = DOMAIN old
        /\ \A k \in DOMAIN old \ {"DefaultRootObject", "Origins",
                                  "DefaultCacheBehavior"} : new[k] = old[k]
        /\ DOMAIN new.Origins = DOMAIN old.Origins
        /\ new.Origins.Quantity = old.Origins.Quantity
        /\ Len(new.Origins.Items) = Len(old.Origins.Items)
        /\ DOMAIN newOrigin = DOMAIN oldOrigin
        /\ \A k \in DOMAIN oldOrigin \ {"DomainName", "Id", "OriginPath"} :
             newOrigin[k] = oldOrigin[k]
        /\ DOMAIN new.DefaultCacheBehavior = DOMAIN old.DefaultCacheBehavior
        /\ \A k \in DOMAIN old.DefaultCacheBehavior \ {"TargetOriginId"} :
             new.DefaultCacheBehavior[k] = old.DefaultCacheBehavior[k]

SingleOriginUpdateBuilt ==
  /\ updateParams # <<>>
  /\ fetchedConfig.DistributionConfig.Origins.Quantity = 1
  /\ fetchedConfig.DistributionConfig.Comment = "site"
  /\ fetchedConfig.DistributionConfig.DefaultRootObject = ""
  /\ fetchedConfig.DistributionConfig.DefaultCacheBehavior.ViewerProtocolPolicy
       = "redirect-to-https"
  /\ fetchedConfig.DistributionConfig.Origins.Items[1] = OtherOrigin
  /\ updateParams[1].DistributionConfig # fetchedConfig.DistributionConfig

\* C12: when the invalidation request fails after a successful cutover, the
\* distribution still points at v<version>, the run has made one
\* updateDistribution request and no more, and the run has ended as failed.
InvalidationFailureKeepsCutover ==
  (flow = "deploy" /\ invalidation = "failed") =>
    /\ updateResult = "ok"
    /\ dist.originPath = OriginPathOf(version)
    /\ submitted = 1
    /\ pc = "failed"

InvalidationFailed ==
  /\ invalidation = "failed"
  /\ pc = "failed"
  /\ files = Files
  /\ exitCode = 1

\* the three statuses on which checkStackStatus polls again
InProgressThree ==
  {"UPDATE_COMPLETE_CLEANUP_IN_PROGRESS", "CREATE_IN_PROGRESS",
   "UPDATE_IN_PROGRESS"}

\* C13: after a describeStack that reports one of the three in-progress
\* statuses checkStackStatus waits and describes the stack again, and does
\* not end; after one that reports any other status it ends; once it has
\* ended it describes the stack no more.
PollLoopsOnInProgressOnly ==
  [][ /\ (spc = "poll_describe" /\ spc' # spc /\ pollResult' # "threw") =>
           /\ observed' \in InProgressThree =>
                (spc' = "poll_wait" /\ pollResult' = "none")
           /\ observed' \notin InProgressThree =>
                (spc' # "poll_wait" /\ pollResult' \in {"succeeded", "failed"})
      /\ (spc = "poll_wait" /\ spc' # spc) =>
           (spc' = "poll_describe" /\ pollResult' = "none")
      /\ pollResult # "none" =>
           (spc' \notin {"poll_describe", "poll_wait"} /\ polls' = polls)
    ]_vars

PolledTwiceThenComplete ==
  /\ polls = MaxPolls
  /\ observed = "CREATE_COMPLETE"
  /\ pollResult = "succeeded"

\* C14: a poll that returns has observed exactly one status outside the
\* in-progress ones; the outputs are printed exactly when that status is
\* CREATE_COMPLETE or UPDATE_COMPLETE, and for any other one the status is
\* quoted in the failure message and no outputs are printed.
OutputsOnlyOnSuccess ==
  /\ terminals <= 1
  /\ pollResult \in {"succeeded", "failed"} =>
       (terminals = 1 /\ observed \notin InProgressThree)
  /\ outputs <=> (/\ pollResult \in {"succeeded", "failed"}
                  /\ observed \in {"CREATE_COMPLETE", "UPDATE_COMPLETE"})
  /\ outputs => failMessage = "none"
  /\ (/\ pollResult \in {"succeeded", "failed"}
      /\ observed \notin {"CREATE_COMPLETE", "UPDATE_COMPLETE"}) =>
       (failMessage = observed /\ ~outputs)

RollbackSurfaced ==
  /\ pollResult = "failed"
  /\ failMessage = "ROLLBACK_COMPLETE"
  /\ ~outputs

\* C15: while checkStackStatus is polling, once the stack is in a status
\* outside the three in-progress ones the poll ends (it returns, or a
\* describeStack is rejected); and every observation of an in-progress
\* status is followed by another wait, whatever the number of polls so far.
PollEventuallyEnds ==
  /\ (spc \in {"poll_describe", "poll_wait"} /\ stack \notin InProgressThree)
       ~> (pollResult # "none")
  /\ [][ (/\ spc = "poll_describe"
          /\ spc' # spc
          /\ pollResult' # "threw"
          /\ stack \in InProgressThree) => spc' = "poll_wait" ]_vars

PollingPastTheCount ==
  /\ polls = MaxPolls
  /\ spc = "poll_wait"
  /\ observed = "UPDATE_COMPLETE_CLEANUP_IN_PROGRESS"

\* C16: after a poll that ended on a failure status the flow stops: the run
\* has made its one create or update request and no other, and neither the
\* 'Update env file?' step nor the env setup is run.
FailedPollStopsFlow ==
  pollResult = "failed" =>
    /\ Len(request) = 1
    /\ spc \notin {"env"}
    /\ envFile = "none"

\* C17: createStack or updateStack is requested only after validateTemplate
\* has succeeded in the run; when the validation fails the run ends without
\* either request.
SubmitOnlyAfterValidation ==
  /\ request # <<>> => validation = "valid"
  /\ validation = "invalid" => (request = <<>> /\ spc = "failed")
  /\ validation = "none" => spc \notin {"submit", "poll_describe", "poll_wait"}

UpdateAfterValidation ==
  /\ request # <<>>
  /\ request[1].Op = "updateStack"
  /\ validation = "valid"
  /\ stack = "UPDATE_IN_PROGRESS"

\* C18: createStack is requested only for a stack that does not exist, and
\* updateStack only for a stack in CREATE_COMPLETE or UPDATE_COMPLETE.
SubmitFromAbsentOrCompleted ==
  request # <<>> =>
    /\ request[1].Op = "createStack" => stackAtSubmit = "ABSENT"
    /\ request[1].Op = "updateStack" =>
         stackAtSubmit \in {"CREATE_COMPLETE", "UPDATE_COMPLETE"}

\* C19: a createStack request has EnableTerminationProtection set to true;
\* an updateStack request has no EnableTerminationProtection.
TerminationProtectionOnCreateOnly ==
  request # <<>> =>
    /\ request[1].Op = "createStack" =>
         /\ "EnableTerminationProtection" \in DOMAIN request[1].Input
         /\ request[1].Input["EnableTerminationProtection"] = TRUE
    /\ request[1].Op = "updateStack" =>
         "EnableTerminationProtection" \notin DOMAIN request[1].Input

CreateRequested ==
  /\ request # <<>>
  /\ request[1].Op = "createStack"
  /\ stack = "CREATE_IN_PROGRESS"
  /\ spc = "poll_describe"

\* s ends with suffix
EndsWith(s, suffix) ==
  /\ Len(suffix) <= Len(s)
  /\ SubSeq(s, Len(s) - Len(suffix) + 1, Len(s)) = suffix

\* C20: a file named index.html, service-worker.js or manifest.json, in
\* whatever directory of the tree, is uploaded with a cache-control that
\* forbids caching (no-store, no-cache, must-revalidate); every other file
\* with one that allows it (max-age of a day, none of the forbidding
\* directives).
CacheControlByBasename ==
  \A i \in 1..Len(putParams) :
    LET file == SortLex(treeFiles)[i]
        cacheControl == putParams[i].CacheControl
        entryPoint == \E name \in specFilesPwa :
                        EndsWith(file, <<ChSlash>> \o name)
    IN  IF entryPoint
        THEN {"no-store", "no-cache", "must-revalidate"} \subseteq cacheControl
        ELSE /\ cacheControl \cap {"no-store", "no-cache", "must-revalidate",
                                   "max-age=0"} = {}
             /\ "max-age=86400" \in cacheControl

\* "/sub/index.html" and "/index.html.map" have both been mapped
EntryPointAndAssetMapped ==
  /\ Len(putParams) = 2
  /\ treeFiles = { <<47, 115, 117, 98, 47, 105, 110, 100, 101, 120, 46, 104, 116,
                109, 108>>,
              <<47, 105, 110, 100, 101, 120, 46, 104, 116, 109, 108, 46, 109,
                97, 112>> }
  /\ \E i \in 1..2 : "no-store" \in putParams[i].CacheControl
  /\ \E i \in 1..2 : putParams[i].CacheControl = {"max-age=86400"}

\* C25: when the listObjects of checkIfVersionDeployed is rejected, the run
\* ends at once as failed with exit code 1: the version is not taken as not
\* deployed, so that nothing is dispatched, no file is uploaded and no
\* cutover is invoked or submitted.
ListingFailureSurfaced ==
  (flow = "deploy" /\ listing = "failed") =>
    /\ pc = "failed"
    /\ exitCode = 1
    /\ ~deployed
    /\ ~dispatched
    /\ \A f \in Files : upload[f] = "none"
    /\ rewrote = {}
    /\ ~cutoverInvoked
    /\ submitted = 0

\* the listing failed for a version whose prefix is empty
ListingFailedOnEmptyPrefix ==
  /\ flow = "deploy"
  /\ listing = "failed"
  /\ version \notin VersionsPresent(bucket)
  /\ ListObjects(bucket, <<ChV>> \o version) = {}
  /\ pc = "failed"

\* C28: checkIfVersionDeployed returns true only when the bucket holds an
\* object under v<V>/, the prefix of the version itself.
DeployedOnlyByOwnPrefix ==
  (flow = "deploy" /\ deployed) => hadObjects

\* C29: once an upload of the run has failed the run is failed for good,
\* with exit code 1 and without a cutover invoked or submitted, whatever the
\* other uploads do; they are left in flight, and those that succeed
\* afterwards put their objects.
UploadFailureIsFinal ==
  /\ (flow = "deploy" /\ \E f \in files : upload[f] = "failed") =>
       /\ pc = "failed"
       /\ exitCode = 1
       /\ ~cutoverInvoked
       /\ submitted = 0
       /\ updateResult = "none"
  /\ \A f \in settledLate : upload[f] = "ok" /\ bucket[KeyOf(version, f)] > 0

\* one upload failed, and every other one succeeded after the failure
OthersSucceededAfterFailure ==
  /\ flow = "deploy"
  /\ files = Files
  /\ Cardinality({f \in files : upload[f] = "failed"}) = 1
  /\ settledLate = {f \in files : upload[f] # "failed"}
  /\ settledLate # {}
  /\ pc = "failed"

\* C30: the uploads in flight stay fewer than the files of the tree: a tree
\* of MaxFiles files never has all its uploads in flight at once.
FanOutBelowTreeSize ==
  (flow = "deploy" /\ Cardinality(files) = MaxFiles) =>
    Cardinality(Pending) < MaxFiles

\* C23: a deleteVersionFromBucket that completes leaves no object under the
\* prefix of its version, and one that fails leaves every object of the
\* bucket in place.
DeleteAllOrNothing ==
  [][ /\ (pc = "prune_list_version" /\ pruneResult' = "error") =>
           bucket' = bucket
      /\ (pc = "prune_delete_version" /\ pc' # pc) =>
           LET prefix == <<ChV>> \o Head(selected) \o <<ChSlash>>
           IN  IF pruneResult' = "error"
               THEN bucket' = bucket
               ELSE ListObjects(bucket', prefix) = {} ]_vars

Range(s) == {s[i] : i \in 1..Len(s)}

\* the versions of the example: "5", "4", "3", "2", "1"
ExampleVersions == <<"5", "4", "3", "2", "1">>

\* C24: the versions that automatic mode deletes are those that are neither
\* the current one nor among the first three listed, and it deletes them
\* without a prompt; the prompt of interactive mode disables the others,
\* offers exactly the automatic set and has all of it checked; only offered
\* versions are ever deleted.  With versions 5,4,3,2,1 and current 5 the
\* excluded are 5,4,3 and the candidates 2,1.
PruneSelectionByMode ==
  /\ AutoSelected(ExampleVersions, "5") = <<"2", "1">>
  /\ {Choices(ExampleVersions, "5")[i].value :
        i \in {j \in 1..5 : Choices(ExampleVersions, "5")[j].disabled}}
       = {"5", "4", "3"}
  /\ listed =>
       LET auto == AutoSelected(versions, current)
           choices == Choices(versions, current)
           offered == Enabled(versions, current)
           checked == {i \in 1..Len(versions) : choices[i].checked}
       IN  /\ Checked(versions, offered) = auto
           /\ checked = offered
           /\ Range(selected) \cup deleted \subseteq Range(auto)
           /\ pc = "prune_prompt" => (~autoDeploy /\ selected = auto)
           /\ autoDeploy =>
                /\ pc # "prune_prompt"
                /\ Range(selected) \cup deleted = Range(auto)
                /\ pruneResult = "returned" => deleted = Range(auto)

\* an automatic prune has deleted its one candidate, and it was not asked
AutoPrunedCandidates ==
  /\ autoDeploy
  /\ pruneResult = "returned"
  /\ deleted # {}
  /\ deleted = Range(AutoSelected(versions, current))
  /\ Len(versions) - Cardinality(deleted) >= 3

\* C27: the objects of the version that the origin of the distribution
\* points at stay in the bucket during a prune run, whatever the package
\* version.
PruneSparesServedVersion ==
  \A v \in VersionStrs :
    dist.originPath = OriginPathOf(v) =>
      \A f \in Files : bucket[KeyOf(v, f)] > 0

\* C21: a file whose name ends in one of the compressible extensions is
\* uploaded with ContentEncoding gzip and a body that decompresses to the
\* bytes of the file; any other file is uploaded with its bytes as the body
\* and without ContentEncoding.
GzipRoundTrip ==
  /\ Len(fileBytes) = Len(putParams)
  /\ \A i \in 1..Len(putParams) :
       LET file == SortLex(treeFiles)[i]
           params == putParams[i]
       IN  IF \E ext \in specFilesGzip : EndsWith(file, ext)
           THEN /\ "ContentEncoding" \in DOMAIN params
                /\ params.ContentEncoding = "gzip"
                /\ Gunzip(params.Body) = fileBytes[i]
           ELSE /\ "ContentEncoding" \notin DOMAIN params
                /\ params.Body = fileBytes[i]

\* "/index.html.map" was uploaded compressed, with a body that is not its
\* bytes, and "/logo.png" as it is
CompressedAndRawMapped ==
  /\ Len(putParams) = 2
  /\ treeFiles = { <<47, 105, 110, 100, 101, 120, 46, 104, 116, 109, 108, 46, 109,
                     97, 112>>,
                   <<47, 108, 111, 103, 111, 46, 112, 110, 103>> }
  /\ \E i \in 1..2 : /\ "ContentEncoding" \in DOMAIN putParams[i]
                     /\ fileBytes[i] = <<7, 7>>
                     /\ putParams[i].Body # fileBytes[i]
  /\ \E i \in 1..2 : /\ "ContentEncoding" \notin DOMAIN putParams[i]
                     /\ putParams[i].Body = <<7, 8>>

\* C22: the key of a file of path /<p> below dist, uploaded for version V, is
\* v<V>/<p>; the files mapped so far have as many keys as they are, all
\* under v<V>/.
KeysUnderVersionPrefix ==
  LET prefix == <<ChV>> \o relVersion \o <<ChSlash>>
      keys == {putParams[i].Key : i \in 1..Len(putParams)}
  IN  /\ Len(putParams) <= Cardinality(treeFiles)
      /\ Cardinality(keys) = Len(putParams)
      /\ \A i \in 1..Len(putParams) :
           /\ putParams[i].Key = prefix \o Tail(SortLex(treeFiles)[i])
           /\ IsPrefixOf(prefix, putParams[i].Key)
      /\ updateParams # <<>> => Len(putParams) = Cardinality(treeFiles)

\* "/index.html" and "/sub/index.html" of version 1.0.<LastPatch> have their
\* two keys
SameNameTwoKeys ==
  /\ Len(putParams) = 2
  /\ relVersion = VersionStr(LastPatch)
  /\ treeFiles = { <<47, 105, 110, 100, 101, 120, 46, 104, 116, 109, 108>>,
                   <<47, 115, 117, 98, 47, 105, 110, 100, 101, 120, 46, 104, 116,
                     109, 108>> }
  /\ putParams[1].Key # putParams[2].Key

\* C26: a stack-setup run that has failed (a rejected request, an invalid
\* template, a poll that ended on a failure status) has a non-zero exit code.
SetupFailureExitsNonZero ==
  (spc = "failed" \/ pollResult = "failed") => setupExitCode # 0

\* C37: when a preparation task (npm version patch, npm run build) exits
\* with a non-zero status, the run has ended with exit code 1 and has made
\* no storage or CDN call: no listing of the idempotency check, no upload,
\* no getDistributionConfig, updateDistribution or createInvalidation, and
\* no request of the pruning
PrepFailureEndsRunUntouched ==
  spawnStatus = "nonzero" =>
    /\ pc = "failed"
    /\ exitCode = 1
    /\ listing = "none"
    /\ ~dispatched
    /\ \A f \in Files : upload[f] = "none"
    /\ ~cutoverInvoked
    /\ fetched = NoFetch
    /\ submitted = 0
    /\ invalidation = "none"
    /\ ~listed
    /\ versionCalls = 0

\* the build of an automatic run failed
AutoRebuildFailed ==
  /\ flow = "deploy"
  /\ autoDeploy
  /\ tasks = "rebuild"
  /\ spawnStatus = "nonzero"

\* C32: in a deploy run the pruning is offered (the prompt) or invoked only
\* after the updateDistribution of the run succeeded and its invalidation
\* was requested with success; while the invalidation was declined, not yet
\* made or failed, no pruning has been offered, started or performed
PruneOnlyAfterInvalidation ==
  flow = "deploy" =>
    /\ (pc = "confirm_prune" \/ pruneResult # "none") =>
         (updateResult = "ok" /\ invalidation = "requested")
    /\ invalidation # "requested" =>
         /\ pc \notin {"confirm_prune", "prune_list", "prune_prompt",
                       "prune_list_version", "prune_delete_version"}
         /\ pruneResult = "none"
         /\ ~listed
         /\ versionCalls = 0
         /\ deleted = {}

\* a deploy run pruned a version after its cutover and invalidation
DeployPrunedAfterInvalidation ==
  /\ flow = "deploy"
  /\ updateResult = "ok"
  /\ invalidation = "requested"
  /\ deleted # {}
  /\ pruneResult = "returned"

\* a failed upload, updateDistribution or createInvalidation of the deploy
\* run has ended it with exit code 1, and at most one updateDistribution
\* has been sent
ExternalFailureSurfaced ==
  flow = "deploy" =>
    /\ submitted <= 1
    /\ (\E f \in Files : upload[f] \in {"failed", "threw"}) =>
         (pc = "failed" /\ exitCode = 1)
    /\ updateResult \in {"error", "precondition_failed"} =>
         (pc = "failed" /\ exitCode = 1)
    /\ invalidation = "failed" => (pc = "failed" /\ exitCode = 1)

\* a step of one deploy run starts no call a second time: an upload that was
\* dispatched is not dispatched again and one that settled stays as it
\* settled, an updateDistribution or createInvalidation that was answered
\* is not sent again, and a run that failed makes no further call
NoCallRepeated ==
  (flow = "deploy" /\ runs' = runs) =>
    /\ \A f \in Files :
         upload'[f] # upload[f] =>
           \/ upload[f] = "none" /\ upload'[f] \in {"pending", "threw"}
           \/ upload[f] = "pending" /\ upload'[f] \in {"ok", "failed"}
    /\ updateResult # "none" =>
         (updateResult' = updateResult /\ submitted' = submitted)
    /\ invalidation # "none" => invalidation' = invalidation
    /\ pc = "failed" =>
         /\ pc' = "failed"
         /\ exitCode' = 1
         /\ fetched' = fetched
         /\ submitted' = submitted
         /\ invalidation' = invalidation
         /\ versionCalls' = versionCalls
         /\ \A f \in Files : upload[f] = "none" => upload'[f] = "none"

\* C31: within one deploy run no external call is made twice: each file is
\* uploaded at most once, updateDistribution and createInvalidation are
\* called at most once, and the failure of any of them ends the run with
\* exit code 1
NoRetryWithinRun == []ExternalFailureSurfaced /\ [][NoCallRepeated]_vars

\* every file was uploaded and the one updateDistribution of the run failed
UpdateFailedOnce ==
  /\ flow = "deploy"
  /\ files # {}
  /\ \A f \in files : upload[f] = "ok"
  /\ submitted = 1
  /\ updateResult = "error"
  /\ pc = "failed"

\* the requests of the loop come in pairs, a listing and then a batch delete
\* for one version, and the pair of a version is complete before the listing
\* of the next: versionCalls counts the requests made, deleted the versions
\* whose pair is complete
PrunedInTurn ==
  /\ pc = "prune_list_version" => versionCalls = 2 * Cardinality(deleted)
  /\ pc = "prune_delete_version" => versionCalls = 2 * Cardinality(deleted) + 1
  /\ pruneResult = "returned" =>
       (versionCalls = 2 * Cardinality(deleted) /\ selected = <<>>)
  /\ pruneResult = "error" =>
       \/ versionCalls = 0 /\ deleted = {} /\ ~listed
       \/ versionCalls - 2 * Cardinality(deleted) \in {1, 2}
  /\ \A i \in 1..Len(selected) : selected[i] \notin deleted

\* a step of one run deletes objects only by the batch delete of the first
\* version still selected, which then leaves the selection; after a request
\* of the loop has failed no request is made and nothing is deleted
PruneStepInOrder ==
  runs' = runs =>
    /\ bucket' # bucket =>
         /\ pc \in {"prune_delete_version", "uploading", "failed"}
         /\ pc = "prune_delete_version" =>
              \A k \in Keys : bucket'[k] # bucket[k] =>
                IsPrefixOf(DeletePrefixOf(Head(selected)), k)
    /\ deleted' # deleted =>
         /\ pc = "prune_delete_version"
         /\ deleted' = deleted \cup {Head(selected)}
         /\ selected' = Tail(selected)
    /\ pruneResult = "error" =>
         UNCHANGED <<bucket, deleted, selected, versionCalls, pruneResult>>

\* C33: prunePreviousVersions deletes the selected versions one after
\* another, in the order of the selection: the listing of a version is made
\* only when the batch delete of the version before it has completed, and
\* once a request for one version fails no later version is listed or deleted
PrunedOneAfterAnother == []PrunedInTurn /\ [][PruneStepInOrder]_vars

\* the batch delete of the first of two selected versions failed and the
\* second is still selected, its objects in place
FirstFailedSecondSpared ==
  /\ pruneResult = "error"
  /\ Len(selected) = 2
  /\ deleted = {}
  /\ versionCalls = 2
  /\ ListObjects(bucket, DeletePrefixOf(selected[1])) # {}

\* C39: every version name that listVersionsInBucket returned stands for a
\* top-level prefix that begins with "v", and the prefix that
\* deleteVersionFromBucket lists for the name is that prefix (stated while
\* the run has deleted nothing, the bucket being as it was listed)
VersionNamesAreVPrefixes ==
  (listed /\ deleted = {}) =>
    \A i \in 1..Len(versions) :
      DeletePrefixOf(versions[i]) \in Range(CommonPrefixes(bucket))

\* C34: whatever the number of origins of the fetched configuration, the
\* configuration that updateDistConfig submits has one origin (Quantity 1
\* and one item), the path of that origin is /v<version>, and
\* DefaultCacheBehavior.TargetOriginId is the Id of that origin
SubmittedHasOneOrigin ==
  updateParams # <<>> =>
    LET new == updateParams[1].DistributionConfig
    IN  /\ new.Origins.Quantity = 1
        /\ Len(new.Origins.Items) = 1
        /\ new.Origins.Items[1].OriginPath = OriginPathOf(relVersion)
        /\ new.DefaultCacheBehavior.TargetOriginId = new.Origins.Items[1].Id

\* the update was built from a configuration of two origins whose default
\* behavior targets the first
TwoOriginsUpdateBuilt ==
  /\ updateParams # <<>>
  /\ fetchedConfig.DistributionConfig.Origins.Quantity = 2
  /\ fetchedConfig.DistributionConfig.Origins.Items[1] = OtherOrigin
  /\ fetchedConfig.DistributionConfig.DefaultCacheBehavior.TargetOriginId
       = OtherOrigin.Id

\* checkStackStatus is running: a describeStack is about to be sent or the
\* timer of the next one is set
Polling == spc \in {"poll_describe", "poll_wait"}

\* a step taken while the flow polls sends no createStack or updateStack,
\* and the stack changes in such a step only by the service carrying its
\* operation on, the flow staying where it is
PollStepFrame ==
  Polling =>
    /\ request' = request
    /\ stack' # stack =>
         /\ stack' \in StackSuccessors(stack)
         /\ UNCHANGED <<spc, isUpdate, submitVars, pollVars, envFile>>

\* the operation of the service can go on wherever the poll stands
ProgressOpenWhilePolling ==
  Polling => \A s \in StackSuccessors(stack) : ENABLED StackProgress(s)

\* C35: from the submission of the create or update to the end of the
\* polling the flow sends describe requests only: no step of the flow
\* changes the stack, and the progress of the stack at the service does not
\* depend on where the poll stands, so that a flow stopped at any point of
\* the poll leaves the stack and its operation as they are
PollOnlyDescribes == []ProgressOpenWhilePolling /\ [][PollStepFrame]_vars

\* the service moved the update on between two polls
StackMovedBetweenPolls ==
  /\ spc = "poll_wait"
  /\ observed = "UPDATE_IN_PROGRESS"
  /\ stack = "UPDATE_COMPLETE_CLEANUP_IN_PROGRESS"
  /\ polls >= 2

\* C40: when the stage given is not a key of profiles, stageSelect throws
\* 'Invalid profile' and process.env (NODE_ENV, AWS_PROFILE, the region,
\* the keys) and AWS.config are as they were when it was called; a call
\* that threw 'Invalid profile' has changed neither, whatever its stage
InvalidStageLeavesEnv ==
  /\ selectResult = "Invalid profile" =>
       /\ env = envAtCall
       /\ sdkConfig = sdkAtCall
       /\ ~profileSet
       /\ profile \notin DOMAIN AwsConfig.profiles
  /\ (/\ selPc = "settled"
      /\ Truthy(stageArg)
      /\ stageArg \notin DOMAIN AwsConfig.profiles
      /\ selectResult # "threw") =>
       selectResult = "Invalid profile"

\* a process started with --stage staging and a stage of its own in the
\* environment called stageSelect, which threw
StagingRejected ==
  /\ stageArg = "staging"
  /\ useAwsProfiles
  /\ selectResult = "Invalid profile"
  /\ env.NODE_ENV = "test"
  /\ env.AWS_PROFILE = "default"

\* C36: once the promise of waitForDeployed has settled, by resolving or by
\* rejecting, its timer is cleared and no getDistribution request has been
\* sent since
SettledStopsPolling ==
  waitPromise \in {"resolved", "rejected"} =>
    (interval = "cleared" /\ ~issuedSettled)

\* the positions at which the process waits for an answer of the operator
AtPrompt ==
  pc \in {"confirm_override", "confirm_invalidate", "confirm_prune",
          "prune_prompt"}

\* an automatic deploy run is at no prompt, has had no answer about a
\* version already deployed, and its preparation task is the rebuild
AutoNeverAsks ==
  (flow = "deploy" /\ autoDeploy) =>
    /\ ~AtPrompt
    /\ override = "none"
    /\ tasks \in {"none", "rebuild"}
    /\ deployed => pc \in {"check", "canceled"}

\* C38: a deploy run started with autoDeploy reaches a terminal outcome
\* (done, failed or canceled) with no step of the operator: the preparation
\* task, the decision about a version already deployed, the invalidation
\* and the pruning are decided without a prompt
AutoDeployUnattended ==
  /\ []AutoNeverAsks
  /\ (flow = "deploy" /\ autoDeploy /\ pc = "prep") ~> (pc \in Terminal)

\* an automatic run rebuilt, uploaded, cut over, invalidated, pruned a
\* version and completed
AutoRunPrunedAndDone ==
  /\ flow = "deploy"
  /\ autoDeploy
  /\ tasks = "rebuild"
  /\ invalidation = "requested"
  /\ deleted # {}
  /\ pc = "done"

====
